---- MODULE Spec2Model ----
(***************************************************************************)
(* GA4 diagnose backend: the three report handlers                         *)
(*   page report        src/app/api/diagnose/route.ts   POST               *)
(*   traffic report     src/unnamed/part_003            POST (180..327)    *)
(*   time-series report src/app/api/timeseries/route.ts POST               *)
(* as one state machine.  A handler runs from the arrival of a request to  *)
(* its first await of the analytics backend in one step, and from each     *)
(* answer of the backend to the next await or to the response in one step. *)
(*                                                                         *)
(* Strings that the code trims (the x-api-key header, API_KEY, the keys of *)
(* CLIENTS_JSON) are sequences of pieces: a piece is the whitespace        *)
(* character " " or a run of non-whitespace characters.  Strings that the  *)
(* code only compares (property ids, field names) are TLA+ strings.        *)
(* A finite JavaScript number x is the integer x * Res; floating-point     *)
(* rounding is not modelled.                                               *)
(***************************************************************************)
EXTENDS Integers, Sequences, FiniteSets, TLC

VARIABLES env, backend, pc, req, loc, calls, resp, parked

vars == <<env, backend, pc, req, loc, calls, resp, parked>>

(***************************************************************************)
(* Strings                                                                 *)
(***************************************************************************)
WS == " "

RECURSIVE TrimStart(_)
TrimStart(s) == IF s # <<>> /\ Head(s) = WS THEN TrimStart(Tail(s)) ELSE s

RECURSIVE TrimEnd(_)
TrimEnd(s) ==
  IF s # <<>> /\ s[Len(s)] = WS THEN TrimEnd(SubSeq(s, 1, Len(s) - 1)) ELSE s

\* String.prototype.trim
Trim(s) == TrimEnd(TrimStart(s))

SeqToSet(s) == {s[i] : i \in DOMAIN s}

\* Array.prototype.includes on an array of strings; x is a body value
Includes(list, x) ==
  \E i \in DOMAIN list : x.t = "string" /\ list[i] = x.v

(***************************************************************************)
(* Body values: the propertyId member of the JSON body                     *)
(***************************************************************************)
Undefined == [t |-> "undefined", v |-> ""]
Str(s)    == [t |-> "string", v |-> s]
NumLit(s) == [t |-> "number", v |-> s]

\* JavaScript truthiness of a body value (the number literals used are non-zero)
Truthy(x) == \/ x.t = "string" /\ x.v # ""
             \/ x.t = "number"

(***************************************************************************)
(* The process environment                                                 *)
(***************************************************************************)
EmptyTable == [k \in {} |-> <<>>]

\* CLIENTS_JSON: unset, text that is not JSON, or a JSON object of lists
Unset        == [t |-> "unset", obj |-> EmptyTable]
Malformed    == [t |-> "malformed", obj |-> EmptyTable]
JsonObject(o) == [t |-> "object", obj |-> o]

\* Mutant: text that is not JSON gives a table no credential is a key of
parseClients_Strict(e) ==
  IF e.CLIENTS_JSON.t = "unset" THEN EmptyTable
  ELSE IF e.CLIENTS_JSON.t = "malformed" THEN [k \in {<<"invalid">>} |-> <<>>]
  ELSE e.CLIENTS_JSON.obj

\* function parseClients(): {} when unset, {} when JSON.parse throws
parseClients(e) ==
  IF e.CLIENTS_JSON.t = "unset" THEN EmptyTable
  ELSE IF e.CLIENTS_JSON.t = "malformed" THEN EmptyTable
  ELSE e.CLIENTS_JSON.obj

\* Members every object inherits from Object.prototype, with the value of
\* their length (the arity of the function; -1: the member has no length).
ObjectPrototype ==
  [k \in { <<"constructor">>, <<"hasOwnProperty">>, <<"toString">>,
           <<"valueOf">>, <<"__proto__">> } |->
     CASE k = <<"constructor">>    -> 1
       [] k = <<"hasOwnProperty">> -> 1
       [] k = <<"toString">>       -> 0
       [] k = <<"valueOf">>        -> 0
       [] k = <<"__proto__">>      -> -1]

Null == [t |-> "null", list |-> <<>>, length |-> -1]

\* clients[headerKey]: an own key, else a member found on the prototype
\* chain, else undefined (which both "|| null" and "?? null" turn into null)
Get(clients, key) ==
  IF key \in DOMAIN clients
  THEN [t |-> "array", list |-> clients[key], length |-> Len(clients[key])]
  ELSE IF key \in DOMAIN ObjectPrototype
  THEN [t |-> "inherited", list |-> <<>>, length |-> ObjectPrototype[key]]
  ELSE Null

\* !allowed?.length
NoLength(allowed) == allowed.length <= 0

\* if (allowed): null is the only falsy value allowed can hold
IsSet(allowed) == allowed.t # "null"

(***************************************************************************)
(* Responses.  keys is the set of members of the JSON body; a member that  *)
(* is not in keys holds its default.                                       *)
(***************************************************************************)
NoMeta == [chosenDim |-> "", chosenView |-> "", chosenExtra |-> <<>>,
           propertyId |-> Undefined, dim |-> "", pagePathContains |-> <<>>]

\* The clients member of a debug answer: the table, its keys, or a summary
\* of every key with its values; NoClients when the body has no such member
NoClients == [shape |-> "none", table |-> EmptyTable, keys |-> {}]

NoResp == [status |-> 0, keys |-> {}, error |-> "", allowed |-> <<>>,
           meta |-> NoMeta, medians |-> <<>>, pages |-> <<>>, rows |-> <<>>,
           note |-> "", csv |-> <<>>, body |-> <<>>,
           clients |-> NoClients, raw |-> Unset]

\* json({ error }, status)
ErrorResp(status, message) ==
  [NoResp EXCEPT !.status = status, !.keys = {"error"}, !.error = message]

\* Mutant: the 403 body without the allowed list
ForbiddenResp_NoList(allowed) ==
  [NoResp EXCEPT !.status = 403, !.keys = {"error"},
                 !.error = "Forbidden propertyId for this key"]

\* json({ error: 'Forbidden propertyId for this key', allowed }, 403)
ForbiddenResp(allowed) ==
  [NoResp EXCEPT !.status = 403, !.keys = {"error", "allowed"},
                 !.error = "Forbidden propertyId for this key",
                 !.allowed = allowed.list]

\* what the catch block reports when allowed.includes is not callable
NotAFunction == "allowed.includes is not a function"

(***************************************************************************)
(* The authorization gate, once per handler                                *)
(***************************************************************************)
NoLocals == [allowed |-> Null, propertyId |-> Undefined, chosenDim |-> "",
             chosenView |-> "", chosenExtra |-> <<>>, metrics |-> <<>>,
             pagePathContains |-> <<>>]

\* Mutant: the legacy secret is compared only when a credential is sent
PageGate_EmptyPasses(e, header) ==
  LET headerKey == Trim(header)
      clients   == parseClients(e)
      legacyKey == Trim(e.API_KEY)
  IN  IF Cardinality(DOMAIN clients) > 0
      THEN LET allowed == Get(clients, headerKey)
           IN  [denied  |-> headerKey = <<>> \/ NoLength(allowed),
                allowed |-> allowed]
      ELSE IF legacyKey # <<>>
      THEN [denied |-> headerKey # <<>> /\ headerKey # legacyKey, allowed |-> Null]
      ELSE [denied |-> FALSE, allowed |-> Null]

\* diagnose/route.ts 78..88: [denied, allowed]
PageGate(e, header) ==
  LET headerKey == Trim(header)
      clients   == parseClients(e)
      legacyKey == Trim(e.API_KEY)
  IN  IF Cardinality(DOMAIN clients) > 0
      THEN LET allowed == Get(clients, headerKey)
           IN  [denied  |-> headerKey = <<>> \/ NoLength(allowed),
                allowed |-> allowed]
      ELSE IF legacyKey # <<>>
      THEN [denied |-> headerKey # legacyKey, allowed |-> Null]
      ELSE [denied |-> FALSE, allowed |-> Null]

\* Mutant: a request without a credential is denied in every mode
TrafficGate_NeedsKey(e, header) ==
  LET headerKey == Trim(header)
      clients   == parseClients(e)
      legacyKey == Trim(e.API_KEY)
  IN  IF headerKey = <<>> THEN [denied |-> TRUE, allowed |-> Null]
      ELSE IF Cardinality(DOMAIN clients) > 0
      THEN LET allowed == Get(clients, headerKey)
           IN  [denied |-> NoLength(allowed), allowed |-> allowed]
      ELSE IF legacyKey # <<>>
      THEN [denied |-> headerKey # legacyKey, allowed |-> Null]
      ELSE [denied |-> FALSE, allowed |-> Null]

\* part_003 230..240
TrafficGate(e, header) ==
  LET headerKey == Trim(header)
      clients   == parseClients(e)
      legacyKey == Trim(e.API_KEY)
  IN  IF Cardinality(DOMAIN clients) > 0
      THEN LET allowed == Get(clients, headerKey)
           IN  [denied  |-> headerKey = <<>> \/ NoLength(allowed),
                allowed |-> allowed]
      ELSE IF legacyKey # <<>>
      THEN [denied |-> headerKey # legacyKey, allowed |-> Null]
      ELSE [denied |-> FALSE, allowed |-> Null]

\* timeseries/route.ts 68..78
\* Mutant: the legacy secret is looked at before the table
TimeseriesGate_LegacyFirst(e, header) ==
  LET headerKey == Trim(header)
      clients   == parseClients(e)
      legacyKey == Trim(e.API_KEY)
  IN  IF legacyKey # <<>>
      THEN [denied |-> headerKey # legacyKey, allowed |-> Null]
      ELSE IF Cardinality(DOMAIN clients) > 0
      THEN LET allowed == Get(clients, headerKey)
           IN  [denied  |-> headerKey = <<>> \/ NoLength(allowed),
                allowed |-> allowed]
      ELSE [denied |-> FALSE, allowed |-> Null]

TimeseriesGate(e, header) ==
  LET headerKey == Trim(header)
      clients   == parseClients(e)
      legacyKey == Trim(e.API_KEY)
  IN  IF Cardinality(DOMAIN clients) > 0
      THEN LET allowed == Get(clients, headerKey)
           IN  [denied  |-> headerKey = <<>> \/ NoLength(allowed),
                allowed |-> allowed]
      ELSE IF legacyKey # <<>>
      THEN [denied |-> headerKey # legacyKey, allowed |-> Null]
      ELSE [denied |-> FALSE, allowed |-> Null]

\* if (!allowed.includes(propertyId)): "forbidden", "ok", or "throws" when
\* allowed is not an array
PropertyCheck(allowed, propertyId) ==
  IF ~IsSet(allowed) THEN "ok"
  ELSE IF allowed.t # "array" THEN "throws"
  ELSE IF Includes(allowed.list, propertyId) THEN "ok"
  ELSE "forbidden"

\* The dimensionFilter member of a runReport query; NoFilter is a query
\* without the member
NoFilter ==
  [fieldName |-> "", matchType |-> "", value |-> <<>>, caseSensitive |-> FALSE]

\* timeseries/route.ts 114..127: { filter: { fieldName: 'pagePath',
\* stringFilter: { matchType: CONTAINS, value, caseSensitive: false } } }
PagePathFilter(value) ==
  [fieldName |-> "pagePath", matchType |-> "CONTAINS", value |-> value,
   caseSensitive |-> FALSE]

\* pagePathContains ? { filter } : undefined, spread into the query when set
DimensionFilter(pagePathContains) ==
  IF pagePathContains # <<>> THEN PagePathFilter(pagePathContains) ELSE NoFilter

\* An outbound call of the analytics client
Call(svc, property, dimension, metrics, filter) ==
  [svc |-> svc, property |-> property, dimension |-> dimension,
   metrics |-> metrics, filter |-> filter]

\* A step's outcome: the handler either responded or awaits the backend
Responded(r, l, c) == [pc |-> "done", resp |-> r, loc |-> l, calls |-> c]
Awaiting(at, l, c) == [pc |-> at, resp |-> NoResp, loc |-> l, calls |-> c]

\* Mutant: the 401 body echoes the lists of the table
PageBegin_LeakyDenial(e, r) ==
  LET gate == PageGate(e, r.header)
      propertyId == r.propertyId
      clients == parseClients(e)
      l == [NoLocals EXCEPT !.allowed = gate.allowed, !.propertyId = propertyId]
      check == PropertyCheck(gate.allowed, propertyId)
  IN  IF gate.denied
      THEN Responded([ErrorResp(401, "Unauthorized") EXCEPT
                        !.keys = {"error", "allowed"},
                        !.allowed = IF DOMAIN clients = {} THEN <<>>
                                    ELSE clients[CHOOSE k \in DOMAIN clients : TRUE]],
                     NoLocals, <<>>)
      ELSE IF ~Truthy(propertyId)
      THEN Responded(ErrorResp(400, "propertyId is required"), l, <<>>)
      ELSE IF check = "forbidden" THEN Responded(ForbiddenResp(gate.allowed), l, <<>>)
      ELSE IF check = "throws" THEN Responded(ErrorResp(500, NotAFunction), l, <<>>)
      ELSE IF ~e.GA4
      THEN Responded(ErrorResp(500, "Missing GA4_CLIENT_EMAIL or GA4_PRIVATE_KEY"), l, <<>>)
      ELSE Awaiting("page:getMetadata", l,
                    <<Call("getMetadata", propertyId.v, "", <<>>, NoFilter)>>)

\* diagnose/route.ts 76..109 and the catch 220..222
PageBegin(e, r) ==
  LET gate == PageGate(e, r.header)
      propertyId == r.propertyId
      l == [NoLocals EXCEPT !.allowed = gate.allowed, !.propertyId = propertyId]
      check == PropertyCheck(gate.allowed, propertyId)
  IN  IF gate.denied THEN Responded(ErrorResp(401, "Unauthorized"), NoLocals, <<>>)
      ELSE IF ~Truthy(propertyId)
      THEN Responded(ErrorResp(400, "propertyId is required"), l, <<>>)
      ELSE IF check = "forbidden" THEN Responded(ForbiddenResp(gate.allowed), l, <<>>)
      ELSE IF check = "throws" THEN Responded(ErrorResp(500, NotAFunction), l, <<>>)
      ELSE IF ~e.GA4
      THEN Responded(ErrorResp(500, "Missing GA4_CLIENT_EMAIL or GA4_PRIVATE_KEY"), l, <<>>)
      ELSE Awaiting("page:getMetadata", l,
                    <<Call("getMetadata", propertyId.v, "", <<>>, NoFilter)>>)

\* typeof b.propertyId === 'string' ? b.propertyId : ''
StringOrEmpty(x) == IF x.t = "string" THEN x ELSE Str("")

TrafficMetrics ==
  <<"sessions", "totalUsers", "engagementRate", "bounceRate",
    "averageSessionDuration">>

\* part_003 228..271 and the catch 323..326
TrafficBegin(e, r) ==
  LET gate == TrafficGate(e, r.header)
      propertyId == StringOrEmpty(r.propertyId)
      l == [NoLocals EXCEPT !.allowed = gate.allowed, !.propertyId = propertyId]
      check == PropertyCheck(gate.allowed, propertyId)
  IN  IF gate.denied THEN Responded(ErrorResp(401, "Unauthorized"), NoLocals, <<>>)
      ELSE IF ~Truthy(propertyId)
      THEN Responded(ErrorResp(400, "propertyId is required"), l, <<>>)
      ELSE IF check = "forbidden" THEN Responded(ForbiddenResp(gate.allowed), l, <<>>)
      ELSE IF check = "throws" THEN Responded(ErrorResp(500, NotAFunction), l, <<>>)
      ELSE IF ~e.GA4
      THEN Responded(ErrorResp(500, "Missing GA4 service account envs"), l, <<>>)
      ELSE Awaiting("traffic:getMetadata", l,
                    <<Call("getMetadata", propertyId.v, "", <<>>, NoFilter)>>)

TimeseriesMetrics ==
  <<"sessions", "screenPageViews", "totalUsers", "averageSessionDuration",
    "engagementRate", "bounceRate">>

\* Mutant: the query is sent before the property id is checked
TimeseriesBegin_QueryFirst(e, r) ==
  LET gate == TimeseriesGate(e, r.header)
      propertyId == StringOrEmpty(r.propertyId)
      pagePathContains == Trim(r.pagePathContains)
      l == [NoLocals EXCEPT !.allowed = gate.allowed, !.propertyId = propertyId,
                            !.pagePathContains = pagePathContains,
                            !.metrics = TimeseriesMetrics]
      check == PropertyCheck(gate.allowed, propertyId)
      sent  == <<Call("runReport", propertyId.v, "date", TimeseriesMetrics,
                      DimensionFilter(pagePathContains))>>
  IN  IF gate.denied THEN Responded(ErrorResp(401, "Unauthorized"), NoLocals, <<>>)
      ELSE IF ~Truthy(propertyId)
      THEN Responded(ErrorResp(400, "propertyId is required"), l, <<>>)
      ELSE IF ~e.GA4
      THEN Responded(ErrorResp(500, "Missing GA4 service account envs"), l, <<>>)
      ELSE IF check = "forbidden" THEN Responded(ForbiddenResp(gate.allowed), l, sent)
      ELSE IF check = "throws" THEN Responded(ErrorResp(500, NotAFunction), l, sent)
      ELSE Awaiting("timeseries:runReport", l, sent)

\* timeseries/route.ts 66..141 and the catch 164..167
TimeseriesBegin(e, r) ==
  LET gate == TimeseriesGate(e, r.header)
      propertyId == StringOrEmpty(r.propertyId)
      pagePathContains == Trim(r.pagePathContains)
      l == [NoLocals EXCEPT !.allowed = gate.allowed, !.propertyId = propertyId,
                            !.pagePathContains = pagePathContains,
                            !.metrics = TimeseriesMetrics]
      check == PropertyCheck(gate.allowed, propertyId)
  IN  IF gate.denied THEN Responded(ErrorResp(401, "Unauthorized"), NoLocals, <<>>)
      ELSE IF ~Truthy(propertyId)
      THEN Responded(ErrorResp(400, "propertyId is required"), l, <<>>)
      ELSE IF check = "forbidden" THEN Responded(ForbiddenResp(gate.allowed), l, <<>>)
      ELSE IF check = "throws" THEN Responded(ErrorResp(500, NotAFunction), l, <<>>)
      ELSE IF ~e.GA4
      THEN Responded(ErrorResp(500, "Missing GA4 service account envs"), l, <<>>)
      ELSE Awaiting("timeseries:runReport", l,
                    <<Call("runReport", propertyId.v, "date", TimeseriesMetrics,
                           DimensionFilter(pagePathContains))>>)

(***************************************************************************)
(* Numbers.  k is "fin", "nan", "inf", "ninf" or "undefined" (a member    *)
(* that is not there); n is the value times Res when k is "fin".           *)
(***************************************************************************)
Res == 100 * 100 * 4

Fin(n)  == [k |-> "fin", n |-> n]
NaN     == [k |-> "nan", n |-> 0]
PosInf  == [k |-> "inf", n |-> 0]
NegInf  == [k |-> "ninf", n |-> 0]
Missing == [k |-> "undefined", n |-> 0]

\* Number.isFinite
IsFinite(x) == x.k = "fin"

\* Mutant: the factor applied twice
Times100_Twice(x) == IF x.k = "fin" THEN Fin(x.n * 100 * 100) ELSE x

\* x * 100
Times100(x) == IF x.k = "fin" THEN Fin(x.n * 100) ELSE x

\* A metric value as the backend sends it: no value at all, the empty
\* string, or text; num is what Number(text) is
Absent    == [k |-> "absent", num |-> Fin(0)]
EmptyText == [k |-> "empty", num |-> Fin(0)]
Text(x)   == [k |-> "text", num |-> x]

\* Mutant: a metric value that is not there is read as it is
ToNumber_AbsentIsNaN(raw) ==
  IF raw.k = "text" THEN raw.num ELSE IF raw.k = "absent" THEN NaN ELSE Fin(0)

\* Number(r.metricValues?.[i]?.value ?? '0')
ToNumber(raw) == IF raw.k = "text" THEN raw.num ELSE Fin(0)

\* x || 0 on a number: 0 and NaN are falsy
OrZero(x) ==
  IF x.k \in {"nan", "undefined"} THEN Fin(0) ELSE x

\* x < y and x >= y, x <= y on numbers; any comparison with NaN or
\* undefined is false
Less(x, y) ==
  CASE x.k \in {"nan", "undefined"} \/ y.k \in {"nan", "undefined"} -> FALSE
    [] x.k = "fin" /\ y.k = "fin" -> x.n < y.n
    [] x.k = "ninf" -> y.k # "ninf"
    [] x.k = "inf"  -> FALSE
    [] OTHER        -> y.k = "inf"

AtMost(x, y) ==
  /\ x.k \notin {"nan", "undefined"}
  /\ y.k \notin {"nan", "undefined"}
  /\ ~Less(y, x)

AtLeast(x, y) == AtMost(y, x)

(***************************************************************************)
(* median (diagnose/route.ts 30..35)                                       *)
(***************************************************************************)
RECURSIVE Insert(_, _)
Insert(sorted, x) ==
  IF sorted = <<>> THEN <<x>>
  ELSE IF x <= Head(sorted) THEN <<x>> \o sorted
  ELSE <<Head(sorted)>> \o Insert(Tail(sorted), x)

\* nums.sort((x, y) => x - y) on finite numbers
RECURSIVE SortAsc(_)
SortAsc(a) == IF a = <<>> THEN <<>> ELSE Insert(SortAsc(Tail(a)), Head(a))

\* nums.filter(Number.isFinite), as the integers n
RECURSIVE FiniteOnly(_)
FiniteOnly(nums) ==
  IF nums = <<>> THEN <<>>
  ELSE IF IsFinite(Head(nums)) THEN <<Head(nums).n>> \o FiniteOnly(Tail(nums))
  ELSE FiniteOnly(Tail(nums))

\* Mutant: an even count gives the upper of the two middle elements
median_UpperMiddle(nums) ==
  LET a == SortAsc(FiniteOnly(nums))
      m == Len(a) \div 2
  IN  IF Len(a) = 0 THEN NaN ELSE Fin(a[m + 1])

\* a[m - 1], a[m] of the code are a[m], a[m + 1] here: sequences start at 1
median(nums) ==
  LET a == SortAsc(FiniteOnly(nums))
      m == Len(a) \div 2
  IN  IF Len(a) = 0 THEN NaN
      ELSE IF Len(a) % 2 = 1 THEN Fin(a[m + 1])
      ELSE Fin((a[m] + a[m + 1]) \div 2)

(***************************************************************************)
(* The capability resolver of the page report (diagnose/route.ts 71..117)  *)
(***************************************************************************)
DIM_CANDIDATES == <<"pagePath", "pageLocation", "pageTitle", "screenName">>
VIEW_METRICS   == <<"views", "screenPageViews", "eventCount", "sessions">>
EXTRA_METRICS  == <<"bounceRate", "engagementRate", "averageSessionDuration",
                    "totalUsers", "sessions">>

\* Mutant: the last candidate the schema has, not the first
RECURSIVE Find_Last(_, _)
Find_Last(candidates, has) ==
  IF candidates = <<>> THEN ""
  ELSE IF candidates[Len(candidates)] \in has THEN candidates[Len(candidates)]
  ELSE Find_Last(SubSeq(candidates, 1, Len(candidates) - 1), has)

\* candidates.find((n) => has.has(n)); "" stands for undefined
RECURSIVE Find(_, _)
Find(candidates, has) ==
  IF candidates = <<>> THEN ""
  ELSE IF Head(candidates) \in has THEN Head(candidates)
  ELSE Find(Tail(candidates), has)

\* candidates.filter((n) => has.has(n))
RECURSIVE Filter(_, _)
Filter(candidates, has) ==
  IF candidates = <<>> THEN <<>>
  ELSE IF Head(candidates) \in has
       THEN <<Head(candidates)>> \o Filter(Tail(candidates), has)
       ELSE Filter(Tail(candidates), has)

\* Mutant: if (!chosenDim), the view metric is not checked
Resolve_DimOnly(schema) ==
  LET chosenDim   == Find(DIM_CANDIDATES, schema.dimensions)
      chosenView  == Find(VIEW_METRICS, schema.metrics)
      chosenExtra == Filter(EXTRA_METRICS, schema.metrics)
  IN  [available   |-> chosenDim # "",
       chosenDim   |-> chosenDim,
       chosenView  |-> chosenView,
       chosenExtra |-> chosenExtra]

\* diagnose/route.ts 110..117
Resolve(schema) ==
  LET chosenDim   == Find(DIM_CANDIDATES, schema.dimensions)
      chosenView  == Find(VIEW_METRICS, schema.metrics)
      chosenExtra == Filter(EXTRA_METRICS, schema.metrics)
  IN  [available   |-> chosenDim # "" /\ chosenView # "",
       chosenDim   |-> chosenDim,
       chosenView  |-> chosenView,
       chosenExtra |-> chosenExtra]

(***************************************************************************)
(* The page report after the schema answer (diagnose/route.ts 110..129)    *)
(***************************************************************************)
NotAvailable == "Required dimensions/metrics not available in this property."

PageAfterMetadata(l, c, schema) ==
  LET res     == Resolve(schema)
      metrics == <<res.chosenView>> \o res.chosenExtra
      l2      == [l EXCEPT !.chosenDim = res.chosenDim,
                           !.chosenView = res.chosenView,
                           !.chosenExtra = res.chosenExtra]
  IN  IF ~res.available THEN Responded(ErrorResp(400, NotAvailable), l2, c)
      ELSE Awaiting("page:runReport", [l2 EXCEPT !.metrics = metrics],
                    Append(c, Call("runReport", l.propertyId.v, res.chosenDim,
                                   metrics, NoFilter)))

(***************************************************************************)
(* What runReport answers: each row of the backend, its metric values in   *)
(* the order of the metrics asked for                                      *)
(***************************************************************************)
MetricValues(row, metrics) == [i \in DOMAIN metrics |-> row.mv[metrics[i]]]

\* positions of name in metrics
Positions(metrics, name) == {i \in DOMAIN metrics : metrics[i] = name}

Max(S) == CHOOSE x \in S : \A y \in S : y <= x

\* dimensionValues?.[0]?.value || '' (and ?? ''): undefined gives ''
ValueOrEmpty(d) == IF d.t = "string" THEN d.v ELSE <<>>

\* diagnose/route.ts 132..141: metrics.forEach assigns rec[name] in order,
\* so a name asked for twice keeps the value of its last position
PageRow(row, metrics) ==
  LET mv == MetricValues(row, metrics)
  IN  [dim  |-> ValueOrEmpty(row.dim),
       vals |-> [name \in SeqToSet(metrics) |->
                   LET num == ToNumber(mv[Max(Positions(metrics, name))])
                   IN  IF name \in {"bounceRate", "engagementRate"}
                       THEN Times100(num) ELSE num]]

\* rec[name], undefined when the record has no such member
Member(vals, name) == IF name \in DOMAIN vals THEN vals[name] ELSE Missing

\* diagnose/route.ts 152..156
RECURSIVE Medians(_, _)
Medians(names, rows) ==
  IF names = <<>> THEN [n \in {} |-> NaN]
  ELSE LET rest == Medians(Tail(names), rows)
           name == Head(names)
           all  == [i \in DOMAIN rows |-> OrZero(Member(rows[i].vals, name))]
           vals == [i \in 1..Len(FiniteOnly(all)) |-> Fin(FiniteOnly(all)[i])]
       IN  IF Len(vals) > 0
           THEN [n \in DOMAIN rest \cup {name} |->
                   IF n = name THEN median(vals) ELSE rest[n]]
           ELSE rest

(***************************************************************************)
(* The diagnosis (diagnose/route.ts 159..173).  The tags are the English   *)
(* names the specification gives the Japanese notes of the code.           *)
(***************************************************************************)
TagBounceHigh == "bounce rate high (needs improvement)"
TagBounceLow  == "bounce rate low (healthy)"
TagEngagement == "engagement healthy"
TagLowViews   == "low visibility (under-exposed)"
TagStandard   == "standard"

BounceHighDelta == 15
BounceLowFloor  == 40
BounceLowDelta  == 10
EngagementDelta == 10

\* x + d and Math.max(c, x - d) on a finite x; c, d are plain integers
Plus(x, d)        == Fin(x.n + d * Res)
\* Mutant: Math.max dropped, the low-bounce bound is the median - 10 alone
MaxOf_NoFloor(c, x) == x
MaxOf(c, x)       == IF x.n > c * Res THEN x ELSE Fin(c * Res)
\* x * 0.5, compared exactly: r < x * 0.5 iff 2 r < x
Doubled(x)        == IF x.k = "fin" THEN Fin(2 * x.n) ELSE x

\* notes.push(tag) when the condition holds
PushIf(notes, cond, tag) == IF cond THEN Append(notes, tag) ELSE notes

\* Mutant: the fallback tag is pushed onto every list
Fallback_Always(notes) == Append(notes, TagStandard)

\* if (!notes.length) notes.push(...)
Fallback(notes) == PushIf(notes, Len(notes) = 0, TagStandard)

Notes(vals, medians, chosenView) ==
  LET bMed == Member(medians, "bounceRate")
      bRow == Member(vals, "bounceRate")
      eMed == Member(medians, "engagementRate")
      eRow == Member(vals, "engagementRate")
      vMed == Member(medians, chosenView)
      vRow == Member(vals, chosenView)
      bOk  == IsFinite(bMed) /\ IsFinite(bRow)
      n1   == PushIf(<<>>, bOk /\ AtLeast(bRow, Plus(bMed, BounceHighDelta)),
                     TagBounceHigh)
      n2   == PushIf(n1, bOk /\ AtMost(bRow, MaxOf(BounceLowFloor,
                                                  Plus(bMed, 0 - BounceLowDelta))),
                     TagBounceLow)
      n3   == PushIf(n2, /\ IsFinite(eMed) /\ IsFinite(eRow)
                         /\ AtLeast(eRow, Plus(eMed, EngagementDelta)),
                     TagEngagement)
      n4   == PushIf(n3, IsFinite(vMed) /\ Less(Doubled(vRow), vMed), TagLowViews)
  IN  Fallback(n4)

\* notes.join(' / '), as pieces
RECURSIVE Join(_)
Join(notes) ==
  IF notes = <<>> THEN <<>>
  ELSE IF Len(notes) = 1 THEN <<notes[1]>>
  ELSE <<notes[1], " / ">> \o Join(Tail(notes))

\* { ...r, diagnosis }
Diagnose(row, medians, chosenView) ==
  [dim       |-> row.dim,
   vals      |-> row.vals,
   diagnosis |-> Join(Notes(row.vals, medians, chosenView))]

(***************************************************************************)
(* The CSV of the page report (diagnose/route.ts 176..212): each cell is   *)
(* the value and whether toCell wraps it in quotes (it wraps every string) *)
(***************************************************************************)
CsvColumns ==
  <<"views", "screenPageViews", "eventCount", "sessions", "bounceRate",
    "engagementRate", "averageSessionDuration", "totalUsers">>

StringCell(s) == [quoted |-> TRUE, text |-> s, num |-> Missing]
NumberCell(x) == [quoted |-> FALSE, text |-> <<>>, num |-> x]

\* toCell(r.name ?? ''): a metric the row lacks is the string ''
MetricCell(vals, name) ==
  IF name \in DOMAIN vals THEN NumberCell(vals[name]) ELSE StringCell(<<>>)

CsvLine(page) ==
  <<StringCell(page.dim)>>
    \o [i \in DOMAIN CsvColumns |-> MetricCell(page.vals, CsvColumns[i])]
    \o <<StringCell(page.diagnosis)>>

\* The characters CSV gives a meaning to; every other piece of a text is a
\* run of characters without them
Comma   == ","
Quote   == "\""
Newline == "\n"

\* v.replace(/"/g, '""')
RECURSIVE QuotesDoubled(_)
QuotesDoubled(s) ==
  IF s = <<>> THEN <<>>
  ELSE (IF Head(s) = Quote THEN <<Quote, Quote>> ELSE <<Head(s)>>)
         \o QuotesDoubled(Tail(s))

\* (v).toString() of a number: its digits (here those of n), or the name
\* of the value that is not finite
NumberText(x) ==
  CASE x.k = "fin"  -> ToString(x.n)
    [] x.k = "nan"  -> "NaN"
    [] x.k = "inf"  -> "Infinity"
    [] x.k = "ninf" -> "-Infinity"
    [] OTHER        -> ""

\* Mutant: the quotes of a text are written as they are
toCell_QuotesKept(cell) ==
  IF cell.quoted THEN <<Quote>> \o cell.text \o <<Quote>>
  ELSE <<NumberText(cell.num)>>

\* typeof v === 'string' ? `"${v.replace(/"/g, '""')}"` : (v ?? '').toString()
toCell(cell) ==
  IF cell.quoted THEN <<Quote>> \o QuotesDoubled(cell.text) \o <<Quote>>
  ELSE <<NumberText(cell.num)>>

\* parts.join(sep), on texts
RECURSIVE JoinText(_, _)
JoinText(parts, sep) ==
  IF parts = <<>> THEN <<>>
  ELSE IF Len(parts) = 1 THEN parts[1]
  ELSE parts[1] \o <<sep>> \o JoinText(Tail(parts), sep)

\* [headers.join(','), ...lines].join('\n'), lines of cells joined by ','
CsvText(headers, lines) ==
  JoinText(<<JoinText([j \in DOMAIN headers |-> <<headers[j]>>], Comma)>>
             \o [i \in DOMAIN lines |->
                   JoinText([j \in DOMAIN lines[i] |-> toCell(lines[i][j])],
                            Comma)],
           Newline)

CsvHeaders(chosenDim) ==
  <<chosenDim, "views", "screenPageViews", "eventCount", "sessions",
    "bounceRate(%)", "engagementRate(%)", "averageSessionDuration",
    "totalUsers", "diagnosis">>

(***************************************************************************)
(* The page report after the rows (diagnose/route.ts 132..219)             *)
(***************************************************************************)
NoRowsNote == "No rows. Check date range or data availability."

PageMeta(l) ==
  [NoMeta EXCEPT !.chosenDim = l.chosenDim, !.chosenView = l.chosenView,
                 !.chosenExtra = l.chosenExtra, !.propertyId = l.propertyId]

\* (url.searchParams.get('format') || '').toLowerCase(), on the values used
ToLowerCase(s) == IF s = "CSV" THEN "csv" ELSE s

PageAfterReport(l, c, fmt, answer) ==
  LET format  == ToLowerCase(fmt)
      rows    == [i \in DOMAIN answer |-> PageRow(answer[i], l.metrics)]
      medians == Medians(<<l.chosenView>> \o l.chosenExtra, rows)
      pages   == [i \in DOMAIN rows |-> Diagnose(rows[i], medians, l.chosenView)]
  IN  IF Len(rows) = 0
      THEN Responded([NoResp EXCEPT !.status = 200,
                        !.keys = {"meta", "medians", "pages", "note"},
                        !.meta = PageMeta(l), !.note = NoRowsNote], l, c)
      ELSE IF format = "csv"
      THEN Responded([NoResp EXCEPT !.status = 200, !.keys = {"csv"},
                        !.csv = <<CsvHeaders(l.chosenDim)>>
                                  \o [i \in DOMAIN pages |-> CsvLine(pages[i])],
                        !.body = CsvText(CsvHeaders(l.chosenDim),
                                         [i \in DOMAIN pages |->
                                            CsvLine(pages[i])])],
                     l, c)
      ELSE Responded([NoResp EXCEPT !.status = 200,
                        !.keys = {"meta", "medians", "pages"},
                        !.meta = PageMeta(l), !.medians = medians,
                        !.pages = pages], l, c)

(***************************************************************************)
(* The traffic report (part_003 252..322)                                  *)
(***************************************************************************)
TrafficFallback ==
  <<"sessionSourceMedium", "sessionDefaultChannelGroup", "sessionSource",
    "sessionMedium", "fullReferrer">>

\* dimMap[b.dim ?? 'sourcemedium']; "" stands for undefined
DimMap(dim) ==
  LET dimKey == IF dim.t = "undefined" THEN "sourcemedium" ELSE dim.v
  IN  CASE dimKey = "sourcemedium" -> "sessionSourceMedium"
        [] dimKey = "channel"      -> "sessionDefaultChannelGroup"
        [] dimKey = "source"       -> "sessionSource"
        [] dimKey = "medium"       -> "sessionMedium"
        [] dimKey = "referrer"     -> "fullReferrer"
        [] OTHER                   -> ""

\* Mutant: the fallback order is tried first, the caller's choice ignored
TrafficDim_FallbackFirst(requested, dims) ==
  IF Find(TrafficFallback, dims) # "" THEN Find(TrafficFallback, dims)
  ELSE requested

\* part_003 273..279
TrafficDim(requested, dims) ==
  IF requested \in dims THEN requested ELSE Find(TrafficFallback, dims)

NoTrafficDim == "No suitable traffic dimension available"

TrafficAfterMetadata(l, c, dim, schema) ==
  LET chosenDim == TrafficDim(DimMap(dim), schema.dimensions)
      l2        == [l EXCEPT !.chosenDim = chosenDim, !.metrics = TrafficMetrics]
  IN  IF chosenDim \notin schema.dimensions
      THEN Responded(ErrorResp(400, NoTrafficDim), l2, c)
      ELSE Awaiting("traffic:runReport", l2,
                    Append(c, Call("runReport", l.propertyId.v, chosenDim,
                                   TrafficMetrics, NoFilter)))

NotSet == <<"(not", " ", "set)">>

\* r.dimensionValues?.[0]?.value ?? '(not set)'
Label(d) == IF d.t = "string" THEN d.v ELSE NotSet

\* getM(i), and getM(i) * 100 for the two rates (part_003 309..320)
TrafficRow(row) ==
  LET mv == MetricValues(row, TrafficMetrics)
  IN  [label                  |-> Label(row.dim),
       sessions               |-> ToNumber(mv[1]),
       totalUsers             |-> ToNumber(mv[2]),
       engagementRate         |-> Times100(ToNumber(mv[3])),
       bounceRate             |-> Times100(ToNumber(mv[4])),
       averageSessionDuration |-> ToNumber(mv[5])]

TrafficAfterReport(l, c, answer) ==
  Responded([NoResp EXCEPT !.status = 200, !.keys = {"meta", "rows"},
               !.meta = [NoMeta EXCEPT !.propertyId = l.propertyId,
                                       !.dim = l.chosenDim],
               !.rows = [i \in DOMAIN answer |-> TrafficRow(answer[i])]], l, c)

(***************************************************************************)
(* The time-series report (timeseries/route.ts 145..163)                   *)
(***************************************************************************)
\* Mutant: the slices are joined day first
FormatDate_DayFirst(d) ==
  IF Len(d) = 8
  THEN SubSeq(d, 7, 8) \o <<"-">> \o SubSeq(d, 5, 6) \o <<"-">> \o SubSeq(d, 1, 4)
  ELSE d

\* d && d.length === 8 ? `${d.slice(0,4)}-${d.slice(4,6)}-${d.slice(6,8)}` : String(d)
FormatDate(d) ==
  IF Len(d) = 8
  THEN SubSeq(d, 1, 4) \o <<"-">> \o SubSeq(d, 5, 6) \o <<"-">> \o SubSeq(d, 7, 8)
  ELSE d

TimeseriesRow(row) ==
  LET mv == MetricValues(row, TimeseriesMetrics)
  IN  [date          |-> FormatDate(ValueOrEmpty(row.dim)),
       sessions      |-> ToNumber(mv[1]),
       pageViews     |-> ToNumber(mv[2]),
       users         |-> ToNumber(mv[3]),
       avgSessionSec |-> ToNumber(mv[4]),
       erPercent     |-> Times100(ToNumber(mv[5])),
       brPercent     |-> Times100(ToNumber(mv[6]))]

\* Mutant: the property id is kept in a variable of the module, which the
\* handler of another request in flight has overwritten
TimeseriesAfterReport_SharedPropertyId(l, c, answer) ==
  LET propertyId == IF parked.pc = "idle" THEN l.propertyId
                    ELSE parked.loc.propertyId
  IN  Responded([NoResp EXCEPT !.status = 200, !.keys = {"meta", "rows"},
                   !.meta = [NoMeta EXCEPT !.propertyId = propertyId,
                                           !.pagePathContains = l.pagePathContains],
                   !.rows = [i \in DOMAIN answer |-> TimeseriesRow(answer[i])]],
                l, c)

TimeseriesAfterReport(l, c, answer) ==
  Responded([NoResp EXCEPT !.status = 200, !.keys = {"meta", "rows"},
               !.meta = [NoMeta EXCEPT !.propertyId = l.propertyId,
                                       !.pagePathContains = l.pagePathContains],
               !.rows = [i \in DOMAIN answer |-> TimeseriesRow(answer[i])]], l, c)

\* the message of the error a backend call rejects with
UpstreamMessage  == "upstream failure"
UpstreamMessages == {UpstreamMessage, "DEADLINE_EXCEEDED"}

\* Mutant: the failed call is issued once more before the error is reported
Failed_AfterRetry(l, c, message) ==
  Responded(ErrorResp(500, message), l, Append(c, c[Len(c)]))

\* catch (e): json({ error: message }, 500)
Failed(l, c, message) == Responded(ErrorResp(500, message), l, c)

(***************************************************************************)
(* The state machine                                                       *)
(*   env      the process environment (CLIENTS_JSON, API_KEY, GA4 keys)    *)
(*   backend  the analytics property: its schema and the rows it answers   *)
(*   pc       "idle", the await a handler is suspended at, or "done"       *)
(*   req      the request being served                                     *)
(*   loc      the handler's local variables                                *)
(*   calls    the outbound calls made for req, in order                    *)
(*   resp     the response to req                                          *)
(*   parked   the frame (pc, req, loc, calls, resp) of a second request    *)
(*            whose handler is suspended while this one runs               *)
(***************************************************************************)
NoRequest == [endpoint |-> "", header |-> <<>>, propertyId |-> Undefined,
              format |-> "", dim |-> Undefined, pagePathContains |-> <<>>]

Request(endpoint, header, propertyId, format, dim, contains) ==
  [endpoint |-> endpoint, header |-> header, propertyId |-> propertyId,
   format |-> format, dim |-> dim, pagePathContains |-> contains]

Schema(b) == [dimensions |-> b.dimensions, metrics |-> b.metrics]

\* the frame of a handler: its position, request, locals, calls, response
NoFrame == [pc |-> "idle", req |-> NoRequest, loc |-> NoLocals,
            calls |-> <<>>, resp |-> NoResp]

Becomes(out) ==
  /\ pc' = out.pc
  /\ loc' = out.loc
  /\ calls' = out.calls
  /\ resp' = out.resp

Arrives(r, endpoint) ==
  /\ pc = "idle"
  /\ r.endpoint = endpoint
  /\ req' = r
  /\ UNCHANGED <<env, backend, parked>>

Resumes(at) ==
  /\ pc \in at
  /\ UNCHANGED <<env, backend, req, parked>>

PagePOST(r) == Arrives(r, "page") /\ Becomes(PageBegin(env, r))

PageMetadataAnswers ==
  /\ Resumes({"page:getMetadata"})
  /\ Becomes(PageAfterMetadata(loc, calls, Schema(backend)))

PageReportAnswers ==
  /\ Resumes({"page:runReport"})
  /\ Becomes(PageAfterReport(loc, calls, req.format, backend.rows))

PageFails ==
  /\ Resumes({"page:getMetadata", "page:runReport"})
  /\ Becomes(Failed(loc, calls, backend.fault))

TrafficPOST(r) == Arrives(r, "traffic") /\ Becomes(TrafficBegin(env, r))

TrafficMetadataAnswers ==
  /\ Resumes({"traffic:getMetadata"})
  /\ Becomes(TrafficAfterMetadata(loc, calls, req.dim, Schema(backend)))

TrafficReportAnswers ==
  /\ Resumes({"traffic:runReport"})
  /\ Becomes(TrafficAfterReport(loc, calls, backend.rows))

TrafficFails ==
  /\ Resumes({"traffic:getMetadata", "traffic:runReport"})
  /\ Becomes(Failed(loc, calls, backend.fault))

TimeseriesPOST(r) == Arrives(r, "timeseries") /\ Becomes(TimeseriesBegin(env, r))

TimeseriesReportAnswers ==
  /\ Resumes({"timeseries:runReport"})
  /\ Becomes(TimeseriesAfterReport(loc, calls, backend.rows))

TimeseriesFails ==
  /\ Resumes({"timeseries:runReport"})
  /\ Becomes(Failed(loc, calls, backend.fault))

\* the response is sent and the handler's frame is gone; the process waits
\* for the next request
Returns ==
  /\ pc = "done"
  /\ pc' = "idle"
  /\ req' = NoRequest
  /\ loc' = NoLocals
  /\ calls' = <<>>
  /\ resp' = NoResp
  /\ UNCHANGED <<env, backend, parked>>

\* the frame of the handler that is running
Frame == [pc |-> pc, req |-> req, loc |-> loc, calls |-> calls, resp |-> resp]

\* The event loop: while a handler is suspended at an await (or has not
\* begun, or has returned) the handler of another request runs.  The two
\* frames change places; a handler touches only its own.
Yields ==
  /\ parked # Frame
  /\ pc' = parked.pc
  /\ req' = parked.req
  /\ loc' = parked.loc
  /\ calls' = parked.calls
  /\ resp' = parked.resp
  /\ parked' = Frame
  /\ UNCHANGED <<env, backend>>

\* the handlers, serving the requests of R
Serve(R) ==
  \/ \E r \in R : PagePOST(r)
  \/ PageMetadataAnswers
  \/ PageReportAnswers
  \/ PageFails
  \/ \E r \in R : TrafficPOST(r)
  \/ TrafficMetadataAnswers
  \/ TrafficReportAnswers
  \/ TrafficFails
  \/ \E r \in R : TimeseriesPOST(r)
  \/ TimeseriesReportAnswers
  \/ TimeseriesFails
  \/ Returns

\* the handlers, serving two requests of R at a time
ServeTwo(R) == Serve(R) \/ Yields

Start(e, b) ==
  /\ env = e
  /\ backend = b
  /\ pc = "idle"
  /\ req = NoRequest
  /\ loc = NoLocals
  /\ calls = <<>>
  /\ resp = NoResp
  /\ parked = NoFrame

(***************************************************************************)
(* Inputs of the gate: configurations, credentials and property ids        *)
(***************************************************************************)
K1     == <<"k1">>
K2     == <<"k2">>
Secret == <<"s3cret">>

PropertyLists == {<<>>, <<"1001">>, <<"1001", "1002">>}

\* every table over the keys k1, k2, and one with the empty string as a key
Tables ==
  UNION {[keys -> PropertyLists] : keys \in SUBSET {K1, K2}}
    \cup {[k \in {<<>>, K1} |-> <<"1001">>]}

GateEnvs ==
  [CLIENTS_JSON : {Unset, Malformed} \cup {JsonObject(t) : t \in Tables},
   API_KEY      : {<<>>, <<WS>>, Secret, Secret \o <<WS>>},
   GA4          : BOOLEAN]

Headers ==
  {<<>>, <<WS>>, K1, <<WS>> \o K1 \o <<WS>>, K2, <<"k3">>, Secret,
   <<"constructor">>, <<"toString">>, <<"__proto__">>}

PropertyIds ==
  {Undefined, Str(""), Str("1001"), Str("1002"), Str("2000"), NumLit("1001")}

GateRequests ==
  {Request(ep, h, p, "", Undefined, <<>>) :
     ep \in {"page", "traffic", "timeseries"}, h \in Headers, p \in PropertyIds}

MetricNames ==
  SeqToSet(VIEW_METRICS) \cup SeqToSet(EXTRA_METRICS)
    \cup SeqToSet(TrafficMetrics) \cup SeqToSet(TimeseriesMetrics)

FullSchema ==
  [dimensions |-> SeqToSet(DIM_CANDIDATES) \cup SeqToSet(TrafficFallback)
                    \cup {"date"},
   metrics    |-> MetricNames]

\* a number of the backend, from hundredths
Hundredths(h) == Text(Fin(h * (Res \div 100)))

PlainRow(dim) ==
  [dim |-> dim, mv |-> [name \in MetricNames |-> Hundredths(50)]]

\* the backend of a run: its schema, the rows it answers runReport with,
\* and the message it rejects a call with when it fails
Faulting(schema, rows, fault) ==
  [dimensions |-> schema.dimensions, metrics |-> schema.metrics, rows |-> rows,
   fault |-> fault]

Serving(schema, rows) == Faulting(schema, rows, UpstreamMessage)

GateBackend == Serving(FullSchema, <<PlainRow([t |-> "string", v |-> <<"/">>])>>)

InitGate == \E e \in GateEnvs : Start(e, GateBackend)

SpecGate == InitGate /\ [][Serve(GateRequests)]_vars

(***************************************************************************)
(* The gate's claims, about the request being served.  The credential is   *)
(* the x-api-key header as the handler reads it (trimmed), the legacy      *)
(* secret is API_KEY as the handler reads it (trimmed).                    *)
(***************************************************************************)
Handled    == pc # "idle"
Table      == IF env.CLIENTS_JSON.t = "object" THEN env.CLIENTS_JSON.obj
              ELSE EmptyTable
Credential == Trim(req.header)
LegacyKey  == Trim(env.API_KEY)
DataKeys   == {"meta", "medians", "pages", "rows", "note", "csv"}
Rejecting  == Table # EmptyTable /\
              (\/ Credential = <<>>
               \/ Credential \notin DOMAIN Table
               \/ Table[Credential] = <<>>)

\* C1: a report request that ended Unauthorized or Forbidden has made no
\* call of getMetadata or runReport, is finished, and its response carries
\* no meta, medians, pages or rows.
C1_DeniedBeforeAnyQuery ==
  resp.status \in {401, 403} =>
    /\ calls = <<>>
    /\ pc = "done"
    /\ resp.keys \cap DataKeys = {}

C1_Witness ==
  /\ req.endpoint = "timeseries"
  /\ resp.status = 403
  /\ calls = <<>>

\* C2: with a non-empty table, a request whose credential is empty, is not
\* a key of the table, or is a key of an empty list is answered Unauthorized.
C2_RejectedIsUnauthorized ==
  (Handled /\ Rejecting) => resp.status = 401

\* C3: with a non-empty table and a credential (a non-empty string) that
\* maps to a non-empty list, a request naming a property id (a non-empty
\* string) outside the list is answered Forbidden with exactly the
\* credential's list, and one naming a member is neither Unauthorized nor
\* Forbidden.
C3_ForbiddenDisclosesList ==
  (/\ Handled
   /\ Credential # <<>>
   /\ Credential \in DOMAIN Table
   /\ Table[Credential] # <<>>
   /\ req.propertyId.t = "string"
   /\ req.propertyId.v # "")
  => IF req.propertyId.v \in SeqToSet(Table[Credential])
     THEN resp.status \notin {401, 403}
     ELSE /\ resp.status = 403
          /\ resp.keys = {"error", "allowed"}
          /\ resp.allowed = Table[Credential]

C3_Witness ==
  /\ K1 \in DOMAIN Table
  /\ Table[K1] = <<"1001", "1002">>
  /\ Credential = K1
  /\ req.propertyId = Str("2000")
  /\ resp.status = 403
  /\ resp.allowed = <<"1001", "1002">>

\* C4: with an empty table and a legacy secret, a request is answered
\* Unauthorized exactly when its credential differs from the secret, and
\* is never answered Forbidden, whatever property id it names.
C4_LegacyMode ==
  (Handled /\ DOMAIN Table = {} /\ LegacyKey # <<>>)
  => /\ (resp.status = 401) <=> (Credential # LegacyKey)
     /\ resp.status # 403

C4_Witness ==
  /\ DOMAIN Table = {}
  /\ LegacyKey = Secret
  /\ Credential = Secret
  /\ req.propertyId = Str("2000")
  /\ pc = "page:getMetadata"

\* C5: with neither a table nor a legacy secret, no request is answered
\* Unauthorized or Forbidden.
C5_NoAuthMode ==
  (Handled /\ DOMAIN Table = {} /\ LegacyKey = <<>>)
  => resp.status \notin {401, 403}

C5_Witness ==
  /\ DOMAIN Table = {}
  /\ LegacyKey = <<>>
  /\ req.header = <<>>
  /\ pc = "traffic:getMetadata"

\* C6: the body of an Unauthorized response is { error: 'Unauthorized' }
\* whatever the table holds: no other member, and so no property id.
C6_UnauthorizedDisclosesNothing ==
  resp.status = 401 => resp = ErrorResp(401, "Unauthorized")

C6_Witness ==
  /\ resp.status = 401
  /\ req.endpoint = "page"
  /\ Credential = K2
  /\ K1 \in DOMAIN Table
  /\ Table[K1] # <<>>

(***************************************************************************)
(* Inputs of the resolver: every schema over the candidate names and one   *)
(* traffic dimension, in no-auth mode                                      *)
(***************************************************************************)
OpenEnv == [CLIENTS_JSON |-> Unset, API_KEY |-> <<>>, GA4 |-> TRUE]

Slash == [t |-> "string", v |-> <<"/">>]

ResolveSchemas ==
  [dimensions : SUBSET (SeqToSet(DIM_CANDIDATES) \cup {"sessionSource"}),
   metrics    : SUBSET (SeqToSet(VIEW_METRICS) \cup SeqToSet(EXTRA_METRICS))]

ReportRequests ==
  {Request("page", <<>>, Str("1001"), "", Undefined, <<>>),
   Request("page", <<>>, Str("1001"), "CSV", Undefined, <<>>),
   Request("traffic", <<>>, Str("1001"), "", Str("source"), <<>>),
   Request("timeseries", <<>>, Str("1001"), "", Undefined, <<"blog">>)}

InitResolve ==
  \E schema \in ResolveSchemas : Start(OpenEnv, Serving(schema, <<PlainRow(Slash)>>))

SpecResolve == InitResolve /\ [][Serve(ReportRequests)]_vars

\* the page report has resolved its fields: it awaits the rows or has them
PageResolved ==
  /\ req.endpoint = "page"
  /\ \/ pc = "page:runReport"
     \/ pc = "done" /\ Len(calls) = 2

Earliest(list, has) ==
  list[CHOOSE i \in DOMAIN list :
         list[i] \in has /\ \A j \in 1..(i - 1) : list[j] \notin has]

InSchema(name) == name \in backend.metrics

\* C7: whenever the page report has resolved its fields, the dimension is
\* the earliest entry of the dimension priority list the schema has, the
\* view metric the earliest entry of the view-metric list the schema has,
\* the extra metrics exactly the entries of the extra list the schema has,
\* in the list's order; these are what runReport is asked for.
C7_ResolverPicksEarliest ==
  PageResolved =>
    /\ loc.chosenDim = Earliest(DIM_CANDIDATES, backend.dimensions)
    /\ loc.chosenView = Earliest(VIEW_METRICS, backend.metrics)
    /\ loc.chosenExtra = SelectSeq(EXTRA_METRICS, InSchema)
    /\ calls[2].dimension = loc.chosenDim
    /\ calls[2].metrics = <<loc.chosenView>> \o loc.chosenExtra

C7_Witness ==
  /\ PageResolved
  /\ backend.dimensions \cap SeqToSet(DIM_CANDIDATES) = {"pageTitle", "screenName"}
  /\ backend.metrics = {"eventCount", "sessions", "bounceRate", "totalUsers"}
  /\ loc.chosenDim = "pageTitle"
  /\ loc.chosenView = "eventCount"
  /\ loc.chosenExtra = <<"bounceRate", "totalUsers", "sessions">>

Lacking ==
  \/ backend.dimensions \cap SeqToSet(DIM_CANDIDATES) = {}
  \/ backend.metrics \cap SeqToSet(VIEW_METRICS) = {}

\* C8: for a schema without any candidate dimension or without any
\* candidate view metric, the page report never calls runReport, and once
\* the schema has answered it ends with the BadRequest response.
C8_NotAvailableIsBadRequest ==
  (req.endpoint = "page" /\ Lacking) =>
    /\ pc # "page:runReport"
    /\ \A i \in DOMAIN calls : calls[i].svc # "runReport"
    /\ (pc = "done" /\ resp.error # UpstreamMessage)
         => resp = ErrorResp(400, NotAvailable)

C8_Witness ==
  /\ req.endpoint = "page"
  /\ backend.dimensions \cap SeqToSet(DIM_CANDIDATES) = {"pagePath"}
  /\ backend.metrics \cap SeqToSet(VIEW_METRICS) = {}
  /\ resp = ErrorResp(400, NotAvailable)
  /\ Len(calls) = 1

\* C9: Scenario A: for a schema whose only candidate names are the
\* dimension screenName and the metric sessions, the page report resolves
\* dimension screenName, view metric sessions and no extra metric.
C9_ScenarioA ==
  (/\ PageResolved
   /\ backend.dimensions \cap SeqToSet(DIM_CANDIDATES) = {"screenName"}
   /\ backend.metrics = {"sessions"})
  => /\ loc.chosenDim = "screenName"
     /\ loc.chosenView = "sessions"
     /\ loc.chosenExtra = <<>>

(***************************************************************************)
(* Inputs of the classifier: row sets of up to MaxRows rows over a few     *)
(* values of the bounce rate, the engagement rate and the views            *)
(***************************************************************************)
MaxRows == 2

Count(n) == Text(Fin(n * Res))

BounceValues     == {Absent, Text(NaN), Hundredths(30), Hundredths(80)}
EngagementValues == {Hundredths(50), Hundredths(70)}
ViewValues       == {Count(100), Count(10)}

ClassifyRows ==
  {[dim |-> Slash,
    mv  |-> [name \in MetricNames |->
               CASE name = "bounceRate"     -> b
                 [] name = "engagementRate" -> e
                 [] name = "views"          -> v
                 [] OTHER                   -> Count(1)]] :
     b \in BounceValues, e \in EngagementValues, v \in ViewValues}

RowSets == UNION {[1..n -> ClassifyRows] : n \in 0..MaxRows}

ClassifySchemas ==
  {[dimensions |-> {"pagePath", "sessionSource"},
    metrics    |-> {"views", "bounceRate", "engagementRate"}],
   [dimensions |-> {"pagePath", "sessionSource"},
    metrics    |-> {"views", "averageSessionDuration"}]}

InitClassify ==
  \E schema \in ClassifySchemas, rows \in RowSets :
    Start(OpenEnv, Serving(schema, rows))

SpecClassify == InitClassify /\ [][Serve(ReportRequests)]_vars

RuleTags == {TagBounceHigh, TagBounceLow, TagEngagement, TagLowViews}

\* the tags of a diagnosis: the pieces between the separators
Tags(diagnosis) ==
  [i \in 1..((Len(diagnosis) + 1) \div 2) |-> diagnosis[2 * i - 1]]

WellTagged(diagnosis) ==
  LET tags == Tags(diagnosis)
  IN  /\ Len(tags) >= 1
      /\ SeqToSet(tags) \subseteq RuleTags \cup {TagStandard}
      /\ (SeqToSet(tags) \cap RuleTags = {}) <=> (tags = <<TagStandard>>)
      /\ TagStandard \in SeqToSet(tags) => tags = <<TagStandard>>

\* C10: every page row of a page report, in its JSON and in its CSV form,
\* carries at least one tag; its tags are exactly <<"standard">> if and
\* only if it carries none of the four rule tags, and the fallback tag
\* never stands beside another tag.
C10_AtLeastOneTag ==
  (req.endpoint = "page" /\ resp.status = 200) =>
    /\ \A i \in DOMAIN resp.pages : WellTagged(resp.pages[i].diagnosis)
    /\ \A i \in DOMAIN resp.csv : i > 1 => WellTagged(resp.csv[i][10].text)
    /\ "pages" \in resp.keys => Len(resp.pages) = Len(backend.rows)
    /\ "csv" \in resp.keys => Len(resp.csv) = Len(backend.rows) + 1

C10_Witness ==
  /\ req.endpoint = "page"
  /\ resp.status = 200
  /\ Len(resp.pages) = 2
  /\ Tags(resp.pages[1].diagnosis) = <<TagStandard>>
  /\ Tags(resp.pages[2].diagnosis) = <<TagBounceHigh, TagLowViews>>

(***************************************************************************)
(* Inputs of the statistics: row sets of up to MaxRows rows, each row a    *)
(* plain row (bounce rate 0.5, engagement rate 0.5, 100 views, dimension   *)
(* value "/") with one member replaced; every backend fault                *)
(***************************************************************************)
TenThousandths(n) == Text(Fin(n * (Res \div 10000)))

NoValue    == [t |-> "undefined", v |-> <<>>]
EmptyValue == [t |-> "string", v |-> <<>>]

StatBounce ==
  {Absent, EmptyText, Text(NaN), Text(PosInf), Hundredths(0),
   TenThousandths(423), Hundredths(30), Hundredths(40), Hundredths(80)}
StatEngagement == {Hundredths(50), Hundredths(70)}
StatViews      == {Text(NaN), Text(NegInf), Count(10), Count(100)}
StatDims       == {Slash, EmptyValue, NoValue}

StatRow(d, b, e, v) ==
  [dim |-> d,
   mv  |-> [name \in MetricNames |->
              CASE name = "bounceRate"     -> b
                [] name = "engagementRate" -> e
                [] name = "views"          -> v
                [] OTHER                   -> Count(1)]]

StatRows ==
  {StatRow(Slash, b, Hundredths(50), Count(100)) : b \in StatBounce}
    \cup {StatRow(Slash, Hundredths(50), e, Count(100)) : e \in StatEngagement}
    \cup {StatRow(Slash, Hundredths(50), Hundredths(50), v) : v \in StatViews}
    \cup {StatRow(d, Hundredths(50), Hundredths(50), Count(100)) : d \in StatDims}

StatRowSets == UNION {[1..n -> StatRows] : n \in 0..MaxRows}

InitStats ==
  \E schema \in ClassifySchemas, rows \in StatRowSets, fault \in UpstreamMessages :
    Start(OpenEnv, Faulting(schema, rows, fault))

SpecStats == InitStats /\ [][Serve(ReportRequests)]_vars

\* the page report answered with its pages, as JSON
PageAnswered ==
  /\ req.endpoint = "page"
  /\ resp.status = 200
  /\ "pages" \in resp.keys

\* a number that is defined: neither missing nor NaN nor infinite
Defined(x) == x.k = "fin"

\* the four rules as the specification states them, on a row's values and
\* a median table
RuleBounceHigh(vals, medians) ==
  LET r == Member(vals, "bounceRate")
      m == Member(medians, "bounceRate")
  IN  Defined(r) /\ Defined(m) /\ r.n >= m.n + 15 * Res

RuleBounceLow(vals, medians) ==
  LET r == Member(vals, "bounceRate")
      m == Member(medians, "bounceRate")
  IN  Defined(r) /\ Defined(m) /\ (r.n <= 40 * Res \/ r.n <= m.n - 10 * Res)

RuleEngagement(vals, medians) ==
  LET r == Member(vals, "engagementRate")
      m == Member(medians, "engagementRate")
  IN  Defined(r) /\ Defined(m) /\ r.n >= m.n + 10 * Res

RuleLowViews(vals, medians, view) ==
  LET r == Member(vals, view)
      m == Member(medians, view)
  IN  Defined(r) /\ Defined(m) /\ 2 * r.n < m.n

One(cond, tag) == IF cond THEN <<tag>> ELSE <<>>

ExpectedTags(vals, medians, view) ==
  One(RuleBounceHigh(vals, medians), TagBounceHigh)
    \o One(RuleBounceLow(vals, medians), TagBounceLow)
    \o One(RuleEngagement(vals, medians), TagEngagement)
    \o One(RuleLowViews(vals, medians, view), TagLowViews)

Separated(diagnosis) ==
  /\ Len(diagnosis) % 2 = 1
  /\ \A i \in DOMAIN diagnosis : i % 2 = 0 => diagnosis[i] = " / "

\* C11: in every page report, the tags of a row are exactly the tags of the
\* four rules whose condition holds on the row and the median table, in the
\* order high-bounce, low-bounce, engagement-healthy, low-visibility (the
\* fallback tag alone when none holds), joined with " / "; a rule needs the
\* row value and the median it compares to be defined.
C11_TagsAreTheRulesThatHold ==
  PageAnswered =>
    \A i \in DOMAIN resp.pages :
      LET page     == resp.pages[i]
          expected == ExpectedTags(page.vals, resp.medians, resp.meta.chosenView)
      IN  /\ Separated(page.diagnosis)
          /\ Tags(page.diagnosis) =
               IF expected = <<>> THEN <<TagStandard>> ELSE expected

\* Scenario B: bounce rates 30 and 80, median 55
C11_ScenarioB ==
  /\ PageAnswered
  /\ Len(resp.pages) = 2
  /\ Member(resp.pages[1].vals, "bounceRate") = Fin(30 * Res)
  /\ Member(resp.pages[2].vals, "bounceRate") = Fin(80 * Res)
  /\ Member(resp.medians, "bounceRate") = Fin(55 * Res)
  /\ Tags(resp.pages[1].diagnosis) = <<TagBounceLow>>
  /\ Tags(resp.pages[2].diagnosis) = <<TagBounceHigh>>

\* the page report answered with pages whose bounce rates all lie in 0..100
BounceRatesInRange ==
  /\ PageAnswered
  /\ \A i \in DOMAIN resp.pages :
       LET r == Member(resp.pages[i].vals, "bounceRate")
       IN  Defined(r) /\ 0 <= r.n /\ r.n <= 100 * Res

BothBounceTags(page) ==
  {TagBounceHigh, TagBounceLow} \subseteq SeqToSet(Tags(page.diagnosis))

\* C12, as stated: for every row set with bounce rates in 0..100 and the
\* bounce-rate median of that row set, no row carries both the high-bounce
\* and the low-bounce tag.
C12_NeverBothBounceTags ==
  BounceRatesInRange =>
    \A i \in DOMAIN resp.pages : ~BothBounceTags(resp.pages[i])

\* C12, amended: for every row set with bounce rates in 0..100 and the
\* bounce-rate median of that row set, a row carries both the high-bounce
\* and the low-bounce tag exactly when its bounce rate is at most 40 and at
\* least the median + 15 (so only under a median of at most 25); rules 1
\* and 2 exclude each other only for a bounce rate above 40.
C12_BothTagsOnlyUnderTheFloor ==
  BounceRatesInRange =>
    \A i \in DOMAIN resp.pages :
      LET r == Member(resp.pages[i].vals, "bounceRate")
          m == Member(resp.medians, "bounceRate")
      IN  BothBounceTags(resp.pages[i])
            <=> (r.n <= 40 * Res /\ r.n >= m.n + 15 * Res)

\* bounce rates 0 and 40: the median is 20, and 40 >= 35 and 40 <= max(40, 10)
C12_Witness ==
  /\ BounceRatesInRange
  /\ Len(resp.pages) = 2
  /\ Member(resp.pages[1].vals, "bounceRate") = Fin(0)
  /\ Member(resp.pages[2].vals, "bounceRate") = Fin(40 * Res)
  /\ Member(resp.medians, "bounceRate") = Fin(20 * Res)
  /\ Tags(resp.pages[2].diagnosis) = <<TagBounceHigh, TagBounceLow>>

(***************************************************************************)
(* Inputs of median: row sets of up to MaxValues rows over a few values of *)
(* the one metric of the schema, in every order                            *)
(***************************************************************************)
MaxValues == 4

MedianValues ==
  {Count(1), Count(2), Count(3), Count(4), Text(NaN), Text(PosInf)}

MedianRows ==
  {StatRow(Slash, Hundredths(50), Hundredths(50), v) : v \in MedianValues}

MedianRowSets == UNION {[1..n -> MedianRows] : n \in 0..MaxValues}

MedianSchema ==
  [dimensions |-> {"pagePath", "sessionSource"}, metrics |-> {"views"}]

InitMedian ==
  \E rows \in MedianRowSets : Start(OpenEnv, Serving(MedianSchema, rows))

SpecMedian == InitMedian /\ [][Serve(ReportRequests)]_vars

\* the numbers the backend's rows hold for the metric
MedianInput ==
  [i \in DOMAIN backend.rows |-> ToNumber(backend.rows[i].mv["views"])]

FiniteAt(nums) == {i \in DOMAIN nums : nums[i].k = "fin"}

\* the k-th smallest of the finite values: fewer than k values are below
\* it, at least k are not above it
Kth(nums, k) ==
  LET I == FiniteAt(nums)
  IN  CHOOSE x \in {nums[i].n : i \in I} :
        /\ Cardinality({i \in I : nums[i].n < x}) < k
        /\ Cardinality({i \in I : nums[i].n <= x}) >= k

Middle(nums) ==
  LET n == Cardinality(FiniteAt(nums))
  IN  IF n = 0 THEN NaN
      ELSE IF n % 2 = 1 THEN Fin(Kth(nums, (n + 1) \div 2))
      ELSE Fin((Kth(nums, n \div 2) + Kth(nums, n \div 2 + 1)) \div 2)

\* nums with the values at i and i + 1 exchanged
Swap(nums, i) ==
  [j \in DOMAIN nums |->
     IF j = i THEN nums[i + 1] ELSE IF j = i + 1 THEN nums[i] ELSE nums[j]]

\* C13: median(values) is NaN when no value is finite, else the middle
\* element of the finite values in ascending order for an odd count and the
\* mean of the two middle elements for an even count; it is the median of
\* the finite values alone, and exchanging two neighbours of the input
\* (so, every reordering) leaves it unchanged.
C13_Median ==
  LET nums == MedianInput
  IN  /\ median(nums) = Middle(nums)
      /\ FiniteAt(nums) = {} => median(nums) = NaN
      /\ median(nums) = median(SelectSeq(nums, IsFinite))
      /\ \A i \in 1..(Len(nums) - 1) : median(Swap(nums, i)) = median(nums)

\* median([1,2,3,4]) = 2.5 in the median table of a page report, and the
\* other examples of the specification
C13_Witness ==
  /\ MedianInput = <<Fin(Res), Fin(2 * Res), Fin(3 * Res), Fin(4 * Res)>>
  /\ PageAnswered
  /\ resp.medians["views"] = Fin((5 * Res) \div 2)
  /\ median(<<>>) = NaN
  /\ median(<<NaN, NaN>>) = NaN
  /\ median(<<Fin(Res), Fin(2 * Res), Fin(3 * Res)>>) = Fin(2 * Res)

Percentages == {"bounceRate", "engagementRate"}

\* the value the specification gives a metric of a row: the backend's
\* number, times 100 for a percentage metric
Rescaled(name, raw) ==
  LET x == ToNumber(raw)
  IN  IF name \in Percentages /\ x.k = "fin" THEN Fin(100 * x.n) ELSE x

\* the rescaled values of a metric over the full row set of the backend
Column(name) ==
  [i \in DOMAIN backend.rows |-> Rescaled(name, backend.rows[i].mv[name])]

\* C14: the median table of a non-empty page report has entries for the
\* view metric and the chosen extra metrics only, and the entry of each is
\* the median of the metric's finite rescaled values over the full row set
\* (no entry, or NaN, when no value is finite); a non-finite value is left
\* out, not counted as 0.
C14_MedianTableOfFiniteValues ==
  (PageAnswered /\ Len(resp.pages) > 0) =>
    LET names == {resp.meta.chosenView} \cup SeqToSet(resp.meta.chosenExtra)
    IN  /\ DOMAIN resp.medians \subseteq names
        /\ \A name \in names :
             IF FiniteAt(Column(name)) = {}
             THEN Member(resp.medians, name) \in {Missing, NaN}
             ELSE Member(resp.medians, name) = Middle(Column(name))

Raw(i, name) == backend.rows[i].mv[name]

\* the rows of a page report, from its JSON pages
PagesAsRows == [i \in DOMAIN resp.pages |->
                  [dim |-> resp.pages[i].dim, vals |-> resp.pages[i].vals]]

PageRescaledOnce ==
  /\ Len(resp.pages) = Len(backend.rows)
  /\ \A i \in DOMAIN resp.pages :
       /\ \A name \in DOMAIN resp.pages[i].vals :
            resp.pages[i].vals[name] = Rescaled(name, Raw(i, name))
       /\ resp.pages[i].diagnosis =
            Join(Notes(resp.pages[i].vals, resp.medians, resp.meta.chosenView))
  /\ resp.medians =
       Medians(<<resp.meta.chosenView>> \o resp.meta.chosenExtra, PagesAsRows)

CsvRescaledOnce ==
  /\ Len(resp.csv) = Len(backend.rows) + 1
  /\ \A i \in DOMAIN backend.rows, j \in DOMAIN CsvColumns :
       LET name == CsvColumns[j]
           cell == resp.csv[i + 1][j + 1]
       IN  IF name \in SeqToSet(loc.metrics)
           THEN cell = NumberCell(Rescaled(name, Raw(i, name)))
           ELSE cell = StringCell(<<>>)

TrafficRescaledOnce ==
  /\ Len(resp.rows) = Len(backend.rows)
  /\ \A i \in DOMAIN resp.rows :
       /\ resp.rows[i].sessions = Rescaled("sessions", Raw(i, "sessions"))
       /\ resp.rows[i].totalUsers = Rescaled("totalUsers", Raw(i, "totalUsers"))
       /\ resp.rows[i].engagementRate =
            Rescaled("engagementRate", Raw(i, "engagementRate"))
       /\ resp.rows[i].bounceRate = Rescaled("bounceRate", Raw(i, "bounceRate"))
       /\ resp.rows[i].averageSessionDuration =
            Rescaled("averageSessionDuration", Raw(i, "averageSessionDuration"))

TimeseriesRescaledOnce ==
  /\ Len(resp.rows) = Len(backend.rows)
  /\ \A i \in DOMAIN resp.rows :
       /\ resp.rows[i].sessions = Rescaled("sessions", Raw(i, "sessions"))
       /\ resp.rows[i].pageViews =
            Rescaled("screenPageViews", Raw(i, "screenPageViews"))
       /\ resp.rows[i].users = Rescaled("totalUsers", Raw(i, "totalUsers"))
       /\ resp.rows[i].avgSessionSec =
            Rescaled("averageSessionDuration", Raw(i, "averageSessionDuration"))
       /\ resp.rows[i].erPercent =
            Rescaled("engagementRate", Raw(i, "engagementRate"))
       /\ resp.rows[i].brPercent = Rescaled("bounceRate", Raw(i, "bounceRate"))

\* C15: in the page report (JSON and CSV), the traffic report and the
\* time-series report, every bounce rate and engagement rate of an output
\* row is the backend's value times 100, every other metric is the
\* backend's value; the medians and the diagnosis of a page report are
\* those of the rescaled values.
C15_RescaledOnce ==
  resp.status = 200 =>
    CASE req.endpoint = "page" /\ "pages" \in resp.keys /\ "note" \notin resp.keys
           -> PageRescaledOnce
      [] req.endpoint = "page" /\ "csv" \in resp.keys -> CsvRescaledOnce
      [] req.endpoint = "traffic"    -> TrafficRescaledOnce
      [] req.endpoint = "timeseries" -> TimeseriesRescaledOnce
      [] OTHER -> backend.rows = <<>>

\* raw 0.0423 gives 4.23, in the row and in the median read from it
C15_Witness ==
  /\ PageAnswered
  /\ Len(backend.rows) = 1
  /\ Raw(1, "bounceRate") = TenThousandths(423)
  /\ Member(resp.pages[1].vals, "bounceRate") = Fin(423 * (Res \div 100))
  /\ Member(resp.medians, "bounceRate") = Fin(423 * (Res \div 100))

\* a report request whose runReport was answered with zero rows
AnsweredNoRows ==
  /\ pc = "done"
  /\ calls # <<>>
  /\ calls[Len(calls)].svc = "runReport"
  /\ resp.status # 500
  /\ backend.rows = <<>>

\* C16: in each of the three reports, a request whose runReport is
\* answered with zero rows gets a success response with an empty pages/rows
\* list, an empty median table and a note explaining that there are no
\* rows; it is neither the BadRequest nor the UpstreamFailure response.
C16_EmptyResultIsAReport ==
  AnsweredNoRows =>
    /\ resp.status = 200
    /\ "error" \notin resp.keys
    /\ resp.pages = <<>> /\ resp.rows = <<>>
    /\ DOMAIN resp.medians = {}
    /\ "note" \in resp.keys
    /\ resp.note # ""

\* the page report does answer zero rows with the note
C16_PageWitness ==
  /\ AnsweredNoRows
  /\ req.endpoint = "page"
  /\ resp.status = 200
  /\ resp.keys = {"meta", "medians", "pages", "note"}
  /\ resp.note = NoRowsNote

CallsOf(svc) == {i \in DOMAIN calls : calls[i].svc = svc}

AwaitingBackend == pc \notin {"idle", "done"}

\* the response to a request one of whose calls the backend rejected
UpstreamFailure == ErrorResp(500, backend.fault)

NoRetry ==
  /\ Cardinality(CallsOf("getMetadata")) <= 1
  /\ Cardinality(CallsOf("runReport")) <= 1
  /\ (resp.status = 500 /\ calls # <<>>) => (pc = "done" /\ resp = UpstreamFailure)

FailsOnce ==
  /\ (AwaitingBackend /\ resp'.status = 500)
       => (pc' = "done" /\ calls' = calls /\ resp' = UpstreamFailure)
  /\ pc = "done" => (pc' = "idle" /\ calls' = <<>>)

\* C17: a request makes at most one getMetadata call and at most one
\* runReport call; when a call fails, the step that reports it makes no
\* call, answers the 500 response carrying the backend's message and ends
\* the request, and an ended request makes no further call and gets no
\* second response.
C17_UpstreamFailureIsTerminal == []NoRetry /\ [][FailsOnce]_vars

C17_Witness ==
  /\ req.endpoint = "page"
  /\ pc = "done"
  /\ backend.fault = "DEADLINE_EXCEEDED"
  /\ resp = ErrorResp(500, "DEADLINE_EXCEEDED")
  /\ Len(calls) = 2
  /\ calls[2].svc = "runReport"

(***************************************************************************)
(* Progress.  The runtime sends a finished response (Returns) by itself.   *)
(* Whether and when the backend settles a call is the backend's affair:    *)
(* the handlers pass no deadline, no call options and no abort signal to   *)
(* getMetadata or runReport and race them against no timer, so no step of  *)
(* a suspended handler is taken unless the backend answers or rejects.     *)
(***************************************************************************)
InitLive ==
  \E schema \in ClassifySchemas, rows \in {<<>>, <<PlainRow(Slash)>>},
     fault \in UpstreamMessages :
    Start(OpenEnv, Faulting(schema, rows, fault))

SpecLive ==
  InitLive /\ [][Serve(ReportRequests)]_vars /\ WF_vars(Returns)

\* C18: every request that awaits the backend eventually ends with a
\* response, whether or not the backend ever settles the call.
C18_EveryRequestEnds == AwaitingBackend ~> (pc = "done")

(***************************************************************************)
(* Two requests in flight: a table of two credentials, requests of every   *)
(* endpoint that are served, forbidden or unauthorized, in any interleaving*)
(***************************************************************************)
TwoClients ==
  [CLIENTS_JSON |-> JsonObject([k \in {K1, K2} |->
                                  IF k = K1 THEN <<"1001">> ELSE <<"1002">>]),
   API_KEY |-> <<>>, GA4 |-> TRUE]

ConcurrentRequests ==
  {Request("page", K1, Str("1001"), "", Undefined, <<>>),
   Request("page", K2, Str("1001"), "", Undefined, <<>>),
   Request("page", <<>>, Str("1001"), "", Undefined, <<>>),
   Request("traffic", K1, Str("1001"), "", Str("source"), <<>>),
   Request("timeseries", K2, Str("1002"), "", Undefined, <<"blog">>)}

InitConcurrent ==
  \E rows \in {<<>>, <<PlainRow(Slash)>>} :
    Start(TwoClients, Serving(FullSchema, rows))

SpecConcurrent == InitConcurrent /\ [][ServeTwo(ConcurrentRequests)]_vars

\* what a handler does, by endpoint and position
Begin(e, r) ==
  CASE r.endpoint = "page"       -> PageBegin(e, r)
    [] r.endpoint = "traffic"    -> TrafficBegin(e, r)
    [] r.endpoint = "timeseries" -> TimeseriesBegin(e, r)

Answered(b, r, out) ==
  CASE out.pc = "page:getMetadata" ->
         PageAfterMetadata(out.loc, out.calls, Schema(b))
    [] out.pc = "page:runReport" ->
         PageAfterReport(out.loc, out.calls, r.format, b.rows)
    [] out.pc = "traffic:getMetadata" ->
         TrafficAfterMetadata(out.loc, out.calls, r.dim, Schema(b))
    [] out.pc = "traffic:runReport" ->
         TrafficAfterReport(out.loc, out.calls, b.rows)
    [] out.pc = "timeseries:runReport" ->
         TimeseriesAfterReport(out.loc, out.calls, b.rows)

\* the outcomes one step after out: the call answered, or rejected
After(b, r, out) ==
  IF out.pc = "done" THEN {}
  ELSE {Answered(b, r, out), Failed(out.loc, out.calls, b.fault)}

\* every position the request r reaches when it is served alone under
\* environment e by backend b (a handler awaits at most twice)
Alone(e, b, r) ==
  LET f0 == {Begin(e, r)}
      f1 == f0 \cup UNION {After(b, r, o) : o \in f0}
  IN  f1 \cup UNION {After(b, r, o) : o \in f1}

OutcomeOf(f) == [pc |-> f.pc, resp |-> f.resp, loc |-> f.loc, calls |-> f.calls]

AsAlone(f) ==
  IF f.pc = "idle" THEN f = NoFrame
  ELSE OutcomeOf(f) \in Alone(env, backend, f.req)

\* a step is the event loop changing handlers, or a step of the running
\* handler, which leaves the other frame, the environment and the backend
\* as they are
OwnFrameOnly ==
  /\ env' = env
  /\ backend' = backend
  /\ parked' = parked \/ (parked' = Frame /\ pc' = parked.pc /\ req' = parked.req
                          /\ loc' = parked.loc /\ calls' = parked.calls
                          /\ resp' = parked.resp)

\* C19: with two requests in flight in any interleaving, the position,
\* locals, calls and response of each request are ones it reaches when it
\* is served alone with the same credential, input, configuration and
\* backend answers, and a step of one request changes nothing but that
\* request's own frame.
C19_RequestsAreIndependent ==
  [](AsAlone(Frame) /\ AsAlone(parked)) /\ [][OwnFrameOnly]_vars

\* the time-series report of k2 answered while the page report of k1 is
\* suspended at its second await
C19_Witness ==
  /\ req.endpoint = "timeseries"
  /\ pc = "done"
  /\ resp.status = 200
  /\ resp.meta.propertyId = Str("1002")
  /\ parked.pc = "page:runReport"
  /\ parked.req.header = K1
  /\ parked.loc.propertyId = Str("1001")

TrafficAnswered == req.endpoint = "traffic" /\ resp.status = 200

\* the backend's dimension value of a row is empty: missing, or ''
EmptyDimension(d) == d.t # "string" \/ d.v = <<>>

\* C20: in a traffic report the label of a row is "(not set)" when the
\* backend's dimension value of the row is missing or the empty string,
\* and the backend's dimension value otherwise.
C20_EmptyLabelIsNotSet ==
  TrafficAnswered =>
    /\ Len(resp.rows) = Len(backend.rows)
    /\ \A i \in DOMAIN resp.rows :
         resp.rows[i].label =
           IF EmptyDimension(backend.rows[i].dim) THEN <<"(not", " ", "set)">>
           ELSE backend.rows[i].dim.v

\* a missing dimension value does give "(not set)", a value gives itself
C20_MissingWitness ==
  /\ TrafficAnswered
  /\ Len(resp.rows) = 2
  /\ backend.rows[1].dim = NoValue
  /\ resp.rows[1].label = NotSet
  /\ backend.rows[2].dim = Slash
  /\ resp.rows[2].label = <<"/">>

(***************************************************************************)
(* Inputs of the traffic dimension: every schema over the five traffic     *)
(* dimensions, every dim key of the body and two keys the map lacks        *)
(***************************************************************************)
TrafficSchemas ==
  {[dimensions |-> {"pagePath", "date"} \cup ds, metrics |-> MetricNames] :
     ds \in SUBSET SeqToSet(TrafficFallback)}

DimKeys ==
  {Undefined, Str("sourcemedium"), Str("channel"), Str("source"),
   Str("medium"), Str("referrer"), Str("campaign"), Str("constructor")}

TrafficRequests ==
  {Request("traffic", <<>>, Str("1001"), "", d, <<>>) : d \in DimKeys}
    \cup {Request("page", <<>>, Str("1001"), "", Undefined, <<>>),
          Request("timeseries", <<>>, Str("1001"), "", Undefined, <<>>)}

InitTraffic ==
  \E schema \in TrafficSchemas :
    Start(OpenEnv, Serving(schema, <<PlainRow(Slash)>>))

SpecTraffic == InitTraffic /\ [][Serve(TrafficRequests)]_vars

\* the dimension the caller asks for: source/medium unless the body says
\* otherwise; "" for a key that names none of the five
Requested ==
  CASE req.dim = Undefined \/ req.dim = Str("sourcemedium") -> "sessionSourceMedium"
    [] req.dim = Str("channel")  -> "sessionDefaultChannelGroup"
    [] req.dim = Str("source")   -> "sessionSource"
    [] req.dim = Str("medium")   -> "sessionMedium"
    [] req.dim = Str("referrer") -> "fullReferrer"
    [] OTHER -> ""

TrafficExposed == backend.dimensions \cap SeqToSet(TrafficFallback)

\* the traffic report is past the schema answer
TrafficResolved ==
  /\ req.endpoint = "traffic"
  /\ Len(calls) >= 1
  /\ pc # "traffic:getMetadata"
  /\ ~(pc = "done" /\ Len(calls) = 1 /\ resp.status = 500)

\* C21: once the schema has answered, the traffic report queries the
\* requested dimension when the schema exposes it, else the earliest entry
\* of the fallback list the schema exposes, and ends BadRequest without a
\* runReport call when the schema exposes none; the dimension of every
\* runReport call is exposed by the schema and is one of the five.
C21_TrafficDimension ==
  /\ TrafficResolved =>
       IF TrafficExposed = {}
       THEN /\ resp = ErrorResp(400, NoTrafficDim)
            /\ Len(calls) = 1
       ELSE /\ Len(calls) = 2
            /\ calls[2].svc = "runReport"
            /\ calls[2].dimension =
                 IF Requested \in backend.dimensions THEN Requested
                 ELSE Earliest(TrafficFallback, backend.dimensions)
  /\ req.endpoint = "traffic" =>
       \A i \in DOMAIN calls :
         calls[i].svc = "runReport" => calls[i].dimension \in TrafficExposed

\* the caller's choice wins over an earlier entry of the fallback list
C21_Witness ==
  /\ TrafficResolved
  /\ req.dim = Str("medium")
  /\ TrafficExposed = {"sessionSourceMedium", "sessionMedium"}
  /\ calls[2].dimension = "sessionMedium"
  /\ resp.status = 200
  /\ resp.meta.dim = "sessionMedium"

(***************************************************************************)
(* Inputs of the time series: dates as the backend writes them, one piece  *)
(* per character, and the pagePathContains member of the body              *)
(***************************************************************************)
SeriesDates ==
  {Str(<<"2", "0", "2", "4", "0", "1", "0", "5">>),
   Str(<<"2", "0", "2", "3", "1", "2", "3", "1">>),
   Str(<<"2", "0", "2", "4", "0", "1">>),
   EmptyValue, NoValue}

SeriesRowSets == UNION {[1..n -> {PlainRow(d) : d \in SeriesDates}] : n \in 0..MaxRows}

SeriesContains ==
  {<<>>, <<WS>>, <<WS, WS>>, <<"blog">>, <<WS, "blog", WS>>, <<"Blog", WS, "post">>}

SeriesRequests ==
  {Request("timeseries", <<>>, Str("1001"), "", Undefined, c) : c \in SeriesContains}
    \cup {Request("page", <<>>, Str("1001"), "", Undefined, <<>>),
          Request("traffic", <<>>, Str("1001"), "", Undefined, <<>>)}

InitSeries ==
  \E rows \in SeriesRowSets : Start(OpenEnv, Serving(FullSchema, rows))

SpecSeries == InitSeries /\ [][Serve(SeriesRequests)]_vars

TimeseriesAnswered ==
  /\ req.endpoint = "timeseries"
  /\ pc = "done"
  /\ resp.status = 200

NonBlank(s) == \E i \in DOMAIN s : s[i] # WS

\* v is what is left of s once the white space at both ends is taken away
Stripped(s, v) ==
  \E a, b \in DOMAIN s :
    /\ v = SubSeq(s, a, b)
    /\ s[a] # WS /\ s[b] # WS
    /\ \A i \in DOMAIN s : (i < a \/ i > b) => s[i] = WS

Hyphenated(d, out) ==
  /\ Len(out) = 10
  /\ out[5] = "-" /\ out[8] = "-"
  /\ \A i \in 1..4 : out[i] = d[i]
  /\ \A i \in 5..6 : out[i + 1] = d[i]
  /\ \A i \in 7..8 : out[i + 2] = d[i]

\* C22: a successful time-series report has one output row per backend row,
\* in the backend's order; a date of eight characters YYYYMMDD is output as
\* YYYY-MM-DD with the same digits (any other date as it came); and the
\* runReport query carries a case-insensitive contains filter on pagePath,
\* with the caller's text less its outer white space, exactly when the
\* caller supplied a pagePathContains that is not blank.
C22_SeriesRowsAndFilter ==
  /\ TimeseriesAnswered =>
       /\ Len(resp.rows) = Len(backend.rows)
       /\ \A i \in DOMAIN backend.rows :
            LET d == ValueOrEmpty(backend.rows[i].dim)
            IN  IF Len(d) = 8 THEN Hyphenated(d, resp.rows[i].date)
                ELSE resp.rows[i].date = d
  /\ req.endpoint = "timeseries" =>
       \A i \in CallsOf("runReport") :
         IF NonBlank(req.pagePathContains)
         THEN /\ calls[i].filter.fieldName = "pagePath"
              /\ calls[i].filter.matchType = "CONTAINS"
              /\ ~calls[i].filter.caseSensitive
              /\ Stripped(req.pagePathContains, calls[i].filter.value)
         ELSE calls[i].filter = NoFilter

\* two dated rows in the backend's order, under a filter the caller padded
C22_Witness ==
  /\ TimeseriesAnswered
  /\ req.pagePathContains = <<WS, "blog", WS>>
  /\ calls[1].filter.value = <<"blog">>
  /\ Len(resp.rows) = 2
  /\ resp.rows[1].date = <<"2", "0", "2", "4", "-", "0", "1", "-", "0", "5">>
  /\ resp.rows[2].date = <<"2", "0", "2", "3", "-", "1", "2", "-", "3", "1">>

(***************************************************************************)
(* Inputs of the CSV output: dimension values with the characters CSV      *)
(* gives a meaning to, and views that are there, empty or left out         *)
(***************************************************************************)
CsvDims ==
  {Slash, Str(<<"a", Comma, "b">>), Str(<<Quote, "x", Quote>>),
   Str(<<"a", Newline, "b">>), Str(<<Comma, Quote, Quote>>),
   EmptyValue, NoValue}

CsvViews == {Count(10), EmptyText, Absent}

CsvRows ==
  {StatRow(d, Hundredths(50), Hundredths(50), Count(100)) : d \in CsvDims}
    \cup {StatRow(Slash, Hundredths(50), Hundredths(50), v) : v \in CsvViews}

CsvRowSets == UNION {[1..n -> CsvRows] : n \in 0..MaxRows}

InitCsv ==
  \E schema \in ClassifySchemas, rows \in CsvRowSets :
    Start(OpenEnv, Serving(schema, rows))

SpecCsv == InitCsv /\ [][Serve(ReportRequests)]_vars

\* Reading CSV text by the standard rules: fields end at a comma, records
\* at a line break; inside double quotes both are text and a doubled quote
\* is one quote.  A character is outside quotes when an even number of
\* quotes precedes it; of the quotes of a field the first opens it, the
\* last closes it, and of each pair between them the second is text.
Ordered(S) ==
  [k \in 1..Cardinality(S) |->
     CHOOSE p \in S : Cardinality({x \in S : x <= p}) = k]

ParseCsv(text) ==
  IF text = <<>> THEN <<>>
  ELSE
    LET n == Len(text)
        quotes == [i \in 0..n |-> Cardinality({j \in 1..i : text[j] = Quote})]
        seps   == {i \in 1..n : text[i] \in {Comma, Newline} /\ quotes[i] % 2 = 0}
        ends   == seps \cup {n + 1}
        breaks == {i \in seps : text[i] = Newline} \cup {n + 1}
        Before(S, e) == Max({0} \cup {x \in S : x < e})
        Field(e) ==
          LET from == Before(seps, e) + 1
              kept == {i \in from..(e - 1) :
                         \/ text[i] # Quote
                         \/ quotes[i] % 2 = 1 /\ quotes[i] - quotes[from - 1] >= 3}
              at   == Ordered(kept)
          IN  [k \in DOMAIN at |-> text[at[k]]]
        Record(b) ==
          LET at == Ordered({e \in ends : Before(breaks, b) < e /\ e <= b})
          IN  [k \in DOMAIN at |-> Field(at[k])]
        at == Ordered(breaks)
    IN  [k \in DOMAIN at |-> Record(at[k])]

\* JSON.stringify of a number: its digits, or null when it is not finite
JsonNumber(x) == IF x.k = "fin" THEN NumberText(x) ELSE "null"

CsvAnswered ==
  /\ req.endpoint = "page"
  /\ pc = "done"
  /\ resp.status = 200
  /\ "csv" \in resp.keys

\* the pages of the JSON answer to the same report
JsonPages == PageAfterReport(loc, calls, "", backend.rows).resp.pages

HasSpecial(s) == \E i \in DOMAIN s : s[i] \in {Comma, Quote}

\* the records read back hold what the pages of the JSON answer hold
ReadBack(parsed, pages) ==
  /\ Len(parsed) = Len(pages) + 1
  /\ parsed[1] = [j \in 1..10 |-> <<CsvHeaders(loc.chosenDim)[j]>>]
  /\ \A i \in DOMAIN pages :
       /\ Len(parsed[i + 1]) = 10
       /\ parsed[i + 1][1] = pages[i].dim
       /\ parsed[i + 1][10] = pages[i].diagnosis
       /\ \A j \in DOMAIN CsvColumns :
            CsvColumns[j] \in DOMAIN pages[i].vals =>
              parsed[i + 1][j + 1] = <<JsonNumber(pages[i].vals[CsvColumns[j]])>>

ConfigAtStart == TwoClients

Swapped ==
  JsonObject([k \in {K1, K2} |-> IF k = K1 THEN <<"1002">> ELSE <<"1001">>])

Configs == {ConfigAtStart.CLIENTS_JSON, Swapped, Unset}

\* process.env.CLIENTS_JSON gets another value while the process runs
Reconfigures ==
  /\ \E c \in Configs \ {env.CLIENTS_JSON} :
       env' = [env EXCEPT !.CLIENTS_JSON = c]
  /\ UNCHANGED <<backend, pc, req, loc, calls, resp, parked>>

ServeReconfigured(R) == Serve(R) \/ Reconfigures

ReconfiguredRequests ==
  {Request(ep, h, Str(p), "", Undefined, <<>>) :
     ep \in {"page", "traffic", "timeseries"}, h \in {K1, K2, <<>>},
     p \in {"1001", "1002"}}

InitReconfigured == Start(ConfigAtStart, GateBackend)

SpecReconfigured ==
  InitReconfigured /\ [][ServeReconfigured(ReconfiguredRequests)]_vars

\* What the gate decided for a request, read from where its first step
\* left it: a backend call was issued, or the request ended with a status
Authorization(o) ==
  IF o.calls # <<>> THEN [outcome |-> "allowed", list |-> <<>>]
  ELSE CASE o.resp.status = 401 -> [outcome |-> "Unauthorized", list |-> <<>>]
         [] o.resp.status = 400 -> [outcome |-> "BadRequest", list |-> <<>>]
         [] o.resp.status = 403 -> [outcome |-> "Forbidden", list |-> o.resp.allowed]
         [] OTHER               -> [outcome |-> "error", list |-> <<>>]

\* C24: the table is the one loaded at process start; whatever the
\* configuration source holds later, a request is authorized as the table
\* of the start decides for its credential and property id.
C24_TableLoadedOnce ==
  pc # "idle" => Authorization(Frame) = Authorization(Begin(ConfigAtStart, req))

\* after the lists of the two credentials changed places, the credential
\* the start table permits for the property is answered Forbidden
C24_ReloadedWitness ==
  /\ env.CLIENTS_JSON = Swapped
  /\ pc = "done"
  /\ req.header = K1
  /\ req.propertyId = Str("1001")
  /\ resp.status = 403
  /\ Authorization(Begin(ConfigAtStart, req)).outcome = "allowed"

(***************************************************************************)
(* The order of the request checks                                         *)
(***************************************************************************)
\* the credential is one the configuration does not accept
Invalid ==
  IF Table # EmptyTable THEN Rejecting
  ELSE LegacyKey # <<>> /\ Credential # LegacyKey

NoPropertyId == req.propertyId \in {Undefined, Str("")}

\* the property id is one the credential may ask for
Permitted ==
  Table # EmptyTable => Includes(Table[Credential], req.propertyId)

\* C25: the checks of a report request are decided in the order
\* Unauthorized, missing property id, Forbidden, backend call: a request
\* with an invalid credential and no property id ends Unauthorized; one
\* with a valid credential of the table and no property id ends BadRequest
\* without an allowed list; a request is refused for its property id only
\* when its credential is valid, and a backend call is made only for a
\* valid credential with a property id it may ask for.
C25_CheckOrder ==
  Handled =>
    /\ (Invalid /\ NoPropertyId) => resp.status = 401
    /\ (Table # EmptyTable /\ ~Invalid /\ NoPropertyId) =>
         /\ resp = ErrorResp(400, "propertyId is required")
         /\ calls = <<>>
    /\ (calls = <<>> /\ resp.status \in {400, 403}) => ~Invalid
    /\ resp.status = 403 => ~NoPropertyId
    /\ calls # <<>> => ~Invalid /\ ~NoPropertyId /\ Permitted

\* a credential that is no key of the table and names no property id is
\* answered BadRequest
C25_InheritedWitness ==
  /\ Handled
  /\ Table # EmptyTable
  /\ Credential = <<"constructor">>
  /\ NoPropertyId
  /\ resp = ErrorResp(400, "propertyId is required")

(***************************************************************************)
(* One gate on three endpoints                                             *)
(***************************************************************************)
\* C26: for every configuration, credential and string property id, what
\* the gate decides for the request being served (allowed, Unauthorized,
\* BadRequest for a missing property id, Forbidden with the allowed list)
\* is what each of the page, traffic and time-series handlers decides for
\* the same credential and property id.
C26_SameGateOnEveryEndpoint ==
  (Handled /\ req.propertyId.t = "string") =>
    /\ Authorization(Frame) = Authorization(PageBegin(env, req))
    /\ Authorization(Frame) = Authorization(TrafficBegin(env, req))
    /\ Authorization(Frame) = Authorization(TimeseriesBegin(env, req))

\* a time-series request refused for its property id, as the page and
\* traffic handlers refuse it, with the same list
C26_Witness ==
  /\ req.endpoint = "timeseries"
  /\ Credential = K1
  /\ req.propertyId = Str("2000")
  /\ resp.status = 403
  /\ Authorization(PageBegin(env, req)) =
       [outcome |-> "Forbidden", list |-> <<"1001", "1002">>]
  /\ Authorization(TrafficBegin(env, req)) =
       [outcome |-> "Forbidden", list |-> <<"1001", "1002">>]

(***************************************************************************)
(* A table that cannot be parsed                                           *)
(***************************************************************************)
WithTable(e, t) == [e EXCEPT !.CLIENTS_JSON = t]

\* C27: when CLIENTS_JSON is set but is not JSON, a request goes exactly
\* the way it goes under the same configuration with an empty table (unset,
\* or the empty object): refused only in legacy mode for a credential that
\* is not the secret, never Forbidden, and otherwise served.
C27_MalformedIsEmpty ==
  (Handled /\ env.CLIENTS_JSON = Malformed) =>
    /\ OutcomeOf(Frame) \in Alone(WithTable(env, Unset), backend, req)
    /\ OutcomeOf(Frame) \in Alone(WithTable(env, JsonObject(EmptyTable)), backend, req)
    /\ resp.status = 401 <=> (LegacyKey # <<>> /\ Credential # LegacyKey)
    /\ resp.status # 403

\* under an unparsable table and no secret, a request without a credential
\* is served
C27_Witness ==
  /\ env.CLIENTS_JSON = Malformed
  /\ LegacyKey = <<>>
  /\ Credential = <<>>
  /\ req.endpoint = "traffic"
  /\ req.propertyId = Str("2000")
  /\ pc = "done"
  /\ resp.status = 200

\* under an unparsable table and a secret, the secret decides
C27_LegacyWitness ==
  /\ env.CLIENTS_JSON = Malformed
  /\ LegacyKey = Secret
  /\ Credential = K1
  /\ resp.status = 401

(***************************************************************************)
(* The GET handlers.  They read CLIENTS_JSON and answer what they read;    *)
(* none of them looks at the credential.                                   *)
(***************************************************************************)
JsonSyntaxError == "Unexpected token"

\* raw ? JSON.parse(raw) : {}
Parsed(e) == IF e.CLIENTS_JSON.t = "object" THEN e.CLIENTS_JSON.obj ELSE EmptyTable

Disclosed(shape, table) == [shape |-> shape, table |-> table, keys |-> DOMAIN table]

ParseFailed(e) ==
  Responded([NoResp EXCEPT !.status = 500, !.keys = {"ok", "error", "raw"},
               !.error = JsonSyntaxError, !.raw = e.CLIENTS_JSON], NoLocals, <<>>)

\* diagnose/route.ts 51..68: { ok, rawLength, apiKeyHeader, clients: parsed }
PageGet(e) ==
  IF e.CLIENTS_JSON.t = "malformed" THEN ParseFailed(e)
  ELSE Responded([NoResp EXCEPT !.status = 200,
                    !.keys = {"ok", "rawLength", "apiKeyHeader", "clients"},
                    !.clients = Disclosed("table", Parsed(e))], NoLocals, <<>>)

\* part_003 210..216: { ok, apiKeyHeader, clients: parseClients() }
TrafficGet(e) ==
  Responded([NoResp EXCEPT !.status = 200,
               !.keys = {"ok", "apiKeyHeader", "clients"},
               !.clients = Disclosed("table", parseClients(e))], NoLocals, <<>>)

\* timeseries/route.ts 38..44: { ok, apiKeyHeader, clients: Object.keys(...) }
TimeseriesGet(e) ==
  Responded([NoResp EXCEPT !.status = 200,
               !.keys = {"ok", "apiKeyHeader", "clients"},
               !.clients = [shape |-> "keys", table |-> EmptyTable,
                            keys |-> DOMAIN parseClients(e)]], NoLocals, <<>>)

\* debug-clients/route.ts 5..18: { ok, rawLength, clients: summary }
DebugClientsGet(e) ==
  IF e.CLIENTS_JSON.t = "malformed" THEN ParseFailed(e)
  ELSE Responded([NoResp EXCEPT !.status = 200,
                    !.keys = {"ok", "rawLength", "clients"},
                    !.clients = Disclosed("summary", Parsed(e))], NoLocals, <<>>)

\* part_002 8..24: { ok, rawLength, clients: parsed }
ClientsGet(e) ==
  IF e.CLIENTS_JSON.t = "malformed" THEN ParseFailed(e)
  ELSE Responded([NoResp EXCEPT !.status = 200,
                    !.keys = {"ok", "rawLength", "clients"},
                    !.clients = Disclosed("table", Parsed(e))], NoLocals, <<>>)

PageGET(r)         == Arrives(r, "GET page") /\ Becomes(PageGet(env))
TrafficGET(r)      == Arrives(r, "GET traffic") /\ Becomes(TrafficGet(env))
TimeseriesGET(r)   == Arrives(r, "GET timeseries") /\ Becomes(TimeseriesGet(env))
DebugClientsGET(r) == Arrives(r, "GET debug-clients") /\ Becomes(DebugClientsGet(env))
ClientsGET(r)      == Arrives(r, "GET part_002") /\ Becomes(ClientsGet(env))

\* every route of the service
ServeAll(R) ==
  \/ Serve(R)
  \/ \E r \in R : PageGET(r)
  \/ \E r \in R : TrafficGET(r)
  \/ \E r \in R : TimeseriesGET(r)
  \/ \E r \in R : DebugClientsGET(r)
  \/ \E r \in R : ClientsGET(r)

Endpoints ==
  {"page", "traffic", "timeseries", "GET page", "GET traffic",
   "GET timeseries", "GET debug-clients", "GET part_002"}

DebugTables ==
  {EmptyTable,
   [k \in {K1} |-> <<"1001">>],
   [k \in {K1, K2} |-> IF k = K1 THEN <<"1001">> ELSE <<"1002">>],
   [k \in {K2} |-> <<"1001", "1002">>]}

DebugEnvs ==
  [CLIENTS_JSON : {Unset, Malformed} \cup {JsonObject(t) : t \in DebugTables},
   API_KEY      : {<<>>, Secret},
   GA4          : {TRUE}]

DebugRequests ==
  {Request(ep, h, p, "", Undefined, <<>>) :
     ep \in Endpoints, h \in {<<>>, K1, K2, <<"k3">>},
     p \in {Undefined, Str("1001")}}

InitDebug == \E e \in DebugEnvs : Start(e, GateBackend)

SpecDebug == InitDebug /\ [][ServeAll(DebugRequests)]_vars

\* the first step of the handler of request r under environment e
FirstStep(e, r) ==
  CASE r.endpoint = "GET page"          -> PageGet(e)
    [] r.endpoint = "GET traffic"       -> TrafficGet(e)
    [] r.endpoint = "GET timeseries"    -> TimeseriesGet(e)
    [] r.endpoint = "GET debug-clients" -> DebugClientsGet(e)
    [] r.endpoint = "GET part_002"      -> ClientsGet(e)
    [] OTHER                            -> Begin(e, r)

\* the configuration e accepts no credential like the one of header h
RejectedBy(e, h) ==
  LET table == Parsed(e)
  IN  IF table # EmptyTable
      THEN \/ Trim(h) = <<>>
           \/ Trim(h) \notin DOMAIN table
           \/ table[Trim(h)] = <<>>
      ELSE Trim(e.API_KEY) # <<>> /\ Trim(h) # Trim(e.API_KEY)

\* C28: the answer to a request that presents no valid credential holds no
\* key and no list of the table, and is the answer the same request gets
\* under any other table that does not accept its credential, on every
\* endpoint and method.
C28_TableNeverDisclosed ==
  (pc = "done" /\ calls = <<>> /\ RejectedBy(env, req.header)) =>
    /\ resp.clients = NoClients
    /\ resp.allowed = <<>>
    /\ \A t \in DebugTables :
         RejectedBy(WithTable(env, JsonObject(t)), req.header) =>
           FirstStep(WithTable(env, JsonObject(t)), req).resp = resp

\* a GET of the page endpoint without a credential is answered the table
C28_DisclosedWitness ==
  /\ req.endpoint = "GET page"
  /\ req.header = <<>>
  /\ RejectedBy(env, req.header)
  /\ pc = "done"
  /\ resp.status = 200
  /\ resp.clients.table = [k \in {K1, K2} |-> IF k = K1 THEN <<"1001">> ELSE <<"1002">>]

(***************************************************************************)
(* The metric list of the page report's query                              *)
(***************************************************************************)
Distinct(list) ==
  \A i, j \in DOMAIN list : list[i] = list[j] => i = j

\* C29: the metric list the page report sends to runReport names no
\* metric twice.
C29_MetricsNamedOnce ==
  req.endpoint = "page" =>
    \A i \in CallsOf("runReport") : Distinct(calls[i].metrics)

\* sessions is the view metric and an extra metric of the same query
C29_SessionsTwiceWitness ==
  /\ PageResolved
  /\ loc.chosenView = "sessions"
  /\ \E i \in CallsOf("runReport") :
       \E j, k \in DOMAIN calls[i].metrics :
         j < k /\ calls[i].metrics[j] = "sessions" /\ calls[i].metrics[k] = "sessions"

(***************************************************************************)
(* The output rows of a report, against the rows the backend answered      *)
(***************************************************************************)
\* the rows of a successful report, each as its dimension text and its
\* metrics under the backend's names
OutputRows ==
  CASE req.endpoint = "page" /\ "csv" \in resp.keys ->
         [i \in 1..(Len(resp.csv) - 1) |->
            [dim  |-> resp.csv[i + 1][1].text,
             vals |-> [name \in SeqToSet(loc.metrics) \cap SeqToSet(CsvColumns) |->
                         resp.csv[i + 1][Max(Positions(CsvColumns, name)) + 1].num]]]
    [] req.endpoint = "page" /\ "csv" \notin resp.keys -> PagesAsRows
    [] req.endpoint = "traffic" ->
         [i \in DOMAIN resp.rows |->
            [dim  |-> resp.rows[i].label,
             vals |-> [sessions               |-> resp.rows[i].sessions,
                       totalUsers             |-> resp.rows[i].totalUsers,
                       engagementRate         |-> resp.rows[i].engagementRate,
                       bounceRate             |-> resp.rows[i].bounceRate,
                       averageSessionDuration |-> resp.rows[i].averageSessionDuration]]]
    [] req.endpoint = "timeseries" ->
         [i \in DOMAIN resp.rows |->
            [dim  |-> resp.rows[i].date,
             vals |-> [sessions               |-> resp.rows[i].sessions,
                       screenPageViews        |-> resp.rows[i].pageViews,
                       totalUsers             |-> resp.rows[i].users,
                       averageSessionDuration |-> resp.rows[i].avgSessionSec,
                       engagementRate         |-> resp.rows[i].erPercent,
                       bounceRate             |-> resp.rows[i].brPercent]]]

Succeeded == pc = "done" /\ resp.status = 200

\* output row i is made of backend row i: it carries that row's dimension
\* text when there is one, 0 for a metric value that is not there, and the
\* row's number (a percentage times 100) for a value that is
MadeOf(out, row) ==
  /\ (row.dim.t = "string" /\ row.dim.v # <<>>) => out.dim = row.dim.v
  /\ \A name \in DOMAIN out.vals :
       IF row.mv[name] = Absent THEN out.vals[name] = Fin(0)
       ELSE row.mv[name].k = "text" =>
              out.vals[name] = Rescaled(name, row.mv[name])

\* C30: a successful report has one output row per backend row, in the
\* backend's order: output row i is made of backend row i, none is added,
\* dropped or moved, and a metric value the backend left out is output as 0.
C30_RowsInBackendOrder ==
  Succeeded =>
    /\ Len(OutputRows) = Len(backend.rows)
    /\ \A i \in DOMAIN backend.rows : MadeOf(OutputRows[i], backend.rows[i])

\* two rows that differ, the first without a bounce rate, come out in place
C30_Witness ==
  /\ Succeeded
  /\ req.endpoint = "traffic"
  /\ Len(backend.rows) = 2
  /\ backend.rows[1].mv["bounceRate"] = Absent
  /\ backend.rows[2].mv["bounceRate"] = Hundredths(80)
  /\ resp.rows[1].bounceRate = Fin(0)
  /\ resp.rows[2].bounceRate = Fin(80 * Res)

====
